---- MODULE Spec2Model ----
(***************************************************************************)
(* A model of the loqa-core runtime: the STT service, the voice router,    *)
(* the LLM and TTS services, the capability registry, the audit event      *)
(* store and the skill host ABI.  Every component has its own variables,   *)
(* its own initial condition and its own specification; the pipeline       *)
(* specification composes STT, router, LLM and TTS over the bus.           *)
(***************************************************************************)
EXTENDS Integers, Sequences, FiniteSets, TLC

VARIABLES
    last,           \* the operation performed by the latest step
    busLog,         \* every message published on the bus, in publish order
    cursor,         \* per subscription: how many busLog entries it has seen
    \* ---- STT service (internal/stt/service.go)
    sttCfg,         \* config.STTConfig: PublishInterim, PartialEveryMS
    sttSessions,    \* Service.sessions
    sttHandlers,    \* handleFrame invocations in progress
    sttWorkers,     \* transcription goroutines in progress
    sttNow,         \* time.Now()
    sttFrames,      \* number of frames received so far
    sttFinalSeen,   \* per session: a frame with final=true was received
    sttArrived,     \* per session: the frames received since its buffer was created
    sttFinalDone,   \* per session: a final transcription has returned
    sttFinalText,   \* per session: a final transcription returned non-empty text
    \* ---- voice router (unnamed/part_006)
    rSessions,      \* Service.sessions
    rSpans,         \* the voice.session spans started, by span number
    rSamples,       \* per session: samples recorded in the latency histogram
    rPendingTTS,    \* goroutines of handleLLMResponse about to publish
    rDonePending,   \* handleTTSDone invocations past their locked section
    rRemoved,       \* per session: VoiceSessions removed by tts.done
    rMsgs,          \* number of messages the router has handled
    \* ---- capability registry (internal/capability/registry.go)
    regNodes,       \* Registry.nodes
    regNow,         \* time.Now()
    regStarted,     \* NewRegistry has run
    \* ---- audit event store (internal/eventstore)
    stCfg,          \* config.EventStoreConfig
    stSessions,     \* table sessions, by session_id
    stEvents,       \* table events, in insertion order
    stNextId,       \* the AUTOINCREMENT counter of events.id
    stClock,        \* Store.clock()
    \* ---- skill host (unnamed/part_007, internal/skills/runtime/runtime.go)
    skBinding,      \* the binding: permissions and publishSet
    skBus,          \* what host_publish has published on the bus
    skAudit,        \* the audit events recorded for the skill
    skCalls,        \* number of host calls made by guests
    skCfg,          \* the configured concurrency of the skill host
    skInv,          \* the invocations, in order of arrival
    skHealthy,      \* Service.healthy
    \* ---- LLM service (unnamed/part_014) and TTS service (unnamed/part_008)
    llmWorkers,     \* goroutines of llm handleRequest: fragments to publish
    ttsWorkers,     \* goroutines of tts handleRequest: chunks to publish
    llmReqs,        \* per session: the fragments its generator has delivered
    ttsSeen,        \* the tts requests received: session and target
    \* ---- runtime supervisor (internal/runtime/runtime.go)
    rtCfg,          \* the worker services with Enabled set in config.Config
    rtPhase,        \* where Runtime.Start is: starting, running, stopping, ...
    rtStep,         \* the next step of the phase
    rtStarted,      \* the components constructed so far, in order
    rtClosed,       \* the components closed so far, in order
    rtServices,     \* the worker service fields of Runtime that are not nil
    rtSvcReady,     \* the worker services whose Start has succeeded
    rtReady,        \* Runtime.ready
    rtBus,          \* the status of the bus connection
    rtServing,      \* the HTTP server may run handlers
    \* ---- skill discovery (unnamed/part_007, internal/skills/manifest)
    skSkills,       \* Service.skills: the bindings by skill name
    dscVisited,     \* number of skill.yaml files the walk has visited
    dscResult,      \* where New is: walking, subscribing, started, failed
    \* ---- exec synthesizer (internal/tts/exec.go) under tts handleRequest
    exMu,           \* execSynth.mu: the request whose synthesis holds it, or 0
    exReqs          \* per tts request: its handler and synthesis goroutines

sttVars == <<sttCfg, sttSessions, sttHandlers, sttWorkers,
             sttNow, sttFrames, sttFinalSeen, sttArrived, sttFinalDone, sttFinalText>>
rVars == <<rSessions, rSpans, rSamples, rPendingTTS, rDonePending, rRemoved,
           rMsgs>>
regVars == <<regNodes, regNow, regStarted>>
stVars == <<stCfg, stSessions, stEvents, stNextId, stClock>>
skVars == <<skBinding, skBus, skAudit, skCalls, skCfg, skInv, skHealthy>>
svcVars == <<llmWorkers, ttsWorkers, llmReqs, ttsSeen>>
busVars == <<busLog, cursor>>
dscVars == <<skSkills, dscVisited, dscResult>>
exVars == <<exMu, exReqs>>
rtVars == <<rtCfg, rtPhase, rtStep, rtStarted, rtClosed, rtServices,
            rtSvcReady, rtReady, rtBus, rtServing>>

(***************************************************************************)
(* Bounds                                                                  *)
(***************************************************************************)
NumSessions == 2
MaxFrames == 3
MaxNow == 2
NumHandlers == 1
MaxRouterMsgs == 4
MaxRegNow == 4
HeartbeatTimeout == 2
MaxDay == 3
MaxEvents == 2
MaxHostCalls == 3
MaxPipelineSessions == 2
MaxInvocations == 3
MaxGuestCalls == 1
MaxTTSRequests == 2
MaxChunks == 3
MaxFragments == 3
MaxLLMRequests == 2
MaxManifests == 2
MaxExecRequests == 2
MaxLines == 2
MaxReuseFrames == 5

SessionIds == 1..NumSessions
HandlerIds == 1..NumHandlers

Nil == [nil |-> TRUE]

SubjectTranscriptPartial == "stt.text.partial"
SubjectTranscriptFinal == "stt.text.final"
SubjectLLMRequest == "nlu.request"
SubjectLLMResponsePartial == "nlu.response.partial"
SubjectLLMResponseFinal == "nlu.response.final"
SubjectTTSRequest == "tts.request"
SubjectTTSAudio == "tts.audio"
SubjectTTSDone == "tts.done"

Subscriptions == {SubjectTranscriptFinal, SubjectLLMRequest,
                  SubjectLLMResponseFinal, SubjectTTSRequest, SubjectTTSDone}

Publish(msg) == busLog' = Append(busLog, msg)

(***************************************************************************)
(* STT service                                                             *)
(***************************************************************************)
sessionState == [Buffer |-> <<>>, LastPartial |-> 0, Inflight |-> FALSE,
                 PendingFinal |-> FALSE]

IdleHandler == [pc |-> "idle", sid |-> 0, final |-> FALSE]

\* The configurations told apart by the service: without interim transcripts
\* the interval is not read; with them it is disabled (<= 0) or one tick.
STTConfigs ==
    {[PublishInterim |-> FALSE, PartialEveryMS |-> 0],
     [PublishInterim |-> TRUE, PartialEveryMS |-> 0],
     [PublishInterim |-> TRUE, PartialEveryMS |-> 1]}

InitSTTIdle ==
    /\ sttCfg = [PublishInterim |-> FALSE, PartialEveryMS |-> 0]
    /\ sttSessions = [s \in SessionIds |-> Nil]
    /\ sttHandlers = [h \in HandlerIds |-> IdleHandler]
    /\ sttWorkers = {}
    /\ sttNow = 1
    /\ sttFrames = 0
    /\ sttFinalSeen = [s \in SessionIds |-> FALSE]
    /\ sttArrived = [s \in SessionIds |-> <<>>]
    /\ sttFinalDone = [s \in SessionIds |-> FALSE]
    /\ sttFinalText = [s \in SessionIds |-> FALSE]

InitSTT ==
    /\ sttCfg \in STTConfigs
    /\ sttSessions = [s \in SessionIds |-> Nil]
    /\ sttHandlers = [h \in HandlerIds |-> IdleHandler]
    /\ sttWorkers = {}
    /\ sttNow = 1
    /\ sttFrames = 0
    /\ sttFinalSeen = [s \in SessionIds |-> FALSE]
    /\ sttArrived = [s \in SessionIds |-> <<>>]
    /\ sttFinalDone = [s \in SessionIds |-> FALSE]
    /\ sttFinalText = [s \in SessionIds |-> FALSE]

\* handleFrame, lines 82-89: locate or create the session, append the PCM.
\* The frame's PCM is the frame's arrival number.
handleFrame(h, sid, final) ==
    /\ sttHandlers[h].pc = "idle"
    /\ sttFrames' = sttFrames + 1
    /\ LET state == IF sttSessions[sid] = Nil THEN sessionState
                    ELSE sttSessions[sid]
       IN sttSessions' = [sttSessions EXCEPT ![sid] =
              [state EXCEPT !.Buffer = Append(state.Buffer, sttFrames + 1)]]
    /\ sttHandlers' = [sttHandlers EXCEPT ![h] =
          [pc |-> IF final THEN "schedule"
                  ELSE IF sttCfg.PublishInterim THEN "check" ELSE "idle",
           sid |-> sid, final |-> final]]
    /\ sttFinalSeen' = [sttFinalSeen EXCEPT ![sid] = @ \/ final]
    /\ sttArrived' = [sttArrived EXCEPT ![sid] =
          (IF sttSessions[sid] = Nil THEN <<>> ELSE @)
             \o <<[pcm |-> sttFrames + 1, final |-> final]>>]
    /\ UNCHANGED <<sttCfg, sttWorkers, sttNow, sttFinalDone,
                   sttFinalText, busVars, last>>

\* shouldSchedulePartial without the test of the interval (lines 116-124).
shouldSchedulePartial_NoInterval(state) ==
    IF state = Nil THEN [ok |-> FALSE, state |-> state]
    ELSE IF state.Inflight THEN [ok |-> FALSE, state |-> state]
    ELSE [ok |-> TRUE, state |-> [state EXCEPT !.LastPartial = sttNow]]

\* shouldSchedulePartial (lines 102-125): the decision and the new LastPartial.
shouldSchedulePartial(state) ==
    IF state = Nil THEN [ok |-> FALSE, state |-> state]
    ELSE IF state.Inflight THEN [ok |-> FALSE, state |-> state]
    ELSE IF state.LastPartial = 0
         THEN [ok |-> TRUE, state |-> [state EXCEPT !.LastPartial = sttNow]]
    ELSE IF sttCfg.PartialEveryMS <= 0 THEN [ok |-> FALSE, state |-> state]
    ELSE IF sttNow - state.LastPartial >= sttCfg.PartialEveryMS
         THEN [ok |-> TRUE, state |-> [state EXCEPT !.LastPartial = sttNow]]
    ELSE [ok |-> FALSE, state |-> state]

\* handleFrame, lines 91-96: the partial decision of a non-final frame.
handleFrameCheck(h) ==
    /\ sttHandlers[h].pc = "check"
    /\ LET sid == sttHandlers[h].sid
           r == shouldSchedulePartial(sttSessions[sid])
       IN /\ sttSessions' = [sttSessions EXCEPT ![sid] = r.state]
          /\ sttHandlers' = [sttHandlers EXCEPT ![h] =
                IF r.ok THEN [@ EXCEPT !.pc = "schedule"] ELSE IdleHandler]
    /\ UNCHANGED <<sttCfg, sttWorkers, sttNow, sttFrames,
                   sttFinalSeen, sttArrived, sttFinalDone, sttFinalText, busVars, last>>

\* The go statement of line 146 starts a goroutine; goroutines are told apart
\* by the smallest identifier not in use.
FreeWorkerId ==
    CHOOSE i \in 1..(Cardinality(sttWorkers) + 1) :
        /\ \A w \in sttWorkers : w.id # i
        /\ \A j \in 1..(i - 1) : \E w \in sttWorkers : w.id = j

\* scheduleTranscription without the test of Inflight (lines 134-140).
scheduleTranscription_IgnoreInflight(sid, final) ==
    LET state == sttSessions[sid] IN
    IF state = Nil THEN [sessions |-> sttSessions, started |-> {}]
    ELSE [sessions |-> [sttSessions EXCEPT ![sid] =
                           [state EXCEPT !.Inflight = TRUE]],
          started |-> {[id |-> FreeWorkerId, sid |-> sid, final |-> final,
                        pcm |-> state.Buffer, pc |-> "transcribe",
                        err |-> FALSE]}]

\* scheduleTranscription, lines 128-146: the locked section and the go
\* statement.  Yields the new session table and the goroutine started, if any.
scheduleTranscription(sid, final) ==
    LET state == sttSessions[sid] IN
    IF state = Nil THEN [sessions |-> sttSessions, started |-> {}]
    ELSE IF state.Inflight
    THEN [sessions |-> [sttSessions EXCEPT ![sid] =
                           [state EXCEPT !.PendingFinal = @ \/ final]],
          started |-> {}]
    ELSE [sessions |-> [sttSessions EXCEPT ![sid] =
                           [state EXCEPT !.Inflight = TRUE]],
          started |-> {[id |-> FreeWorkerId, sid |-> sid, final |-> final,
                        pcm |-> state.Buffer, pc |-> "transcribe",
                        err |-> FALSE]}]

\* handleFrame, lines 94 and 98: the call of scheduleTranscription.
handleFrameSchedule(h) ==
    /\ sttHandlers[h].pc = "schedule"
    /\ LET sid == sttHandlers[h].sid
           r == scheduleTranscription(sid, sttHandlers[h].final)
       IN /\ sttSessions' = r.sessions
          /\ sttWorkers' = sttWorkers \cup r.started
    /\ sttHandlers' = [sttHandlers EXCEPT ![h] = IdleHandler]
    /\ UNCHANGED <<sttCfg, sttNow, sttFrames, sttFinalSeen, sttArrived, sttFinalDone,
                   sttFinalText, busVars, last>>

\* publishTranscript without the test for an empty text (lines 180-182).
publishTranscript_EmptyToo(sid, text, final) ==
    <<[subject |-> IF final THEN SubjectTranscriptFinal
                   ELSE SubjectTranscriptPartial,
       session_id |-> sid, text |-> text, partial |-> ~final]>>

\* publishTranscript (lines 179-202): the messages it puts on the bus.
publishTranscript(sid, text, final) ==
    IF text = "" THEN <<>>
    ELSE <<[subject |-> IF final THEN SubjectTranscriptFinal
                        ELSE SubjectTranscriptPartial,
            session_id |-> sid, text |-> text, partial |-> ~final]>>

\* The goroutine of scheduleTranscription, lines 151-156: Transcribe returns
\* res (an error, or a text that may be empty) and the text is published.
\* The goroutine keeps whether the call failed.
transcribeReturn(w, res) ==
    /\ w \in sttWorkers
    /\ w.pc = "transcribe"
    /\ sttWorkers' = (sttWorkers \ {w})
                      \cup {[w EXCEPT !.pc = "complete", !.err = res.err]}
    /\ busLog' = IF res.err THEN busLog
                 ELSE busLog \o publishTranscript(w.sid, res.text, w.final)
    /\ sttFinalDone' = [sttFinalDone EXCEPT ![w.sid] = @ \/ w.final]
    /\ sttFinalText' = [sttFinalText EXCEPT ![w.sid] =
                          @ \/ (w.final /\ ~res.err /\ res.text # "")]
    /\ UNCHANGED <<sttCfg, sttSessions, sttHandlers, sttNow,
                   sttFrames, sttFinalSeen, sttArrived, cursor, last>>

\* The completion section without the removal of the session (lines
\* 167-169).
transcribeComplete_KeepSession(w) ==
    /\ w \in sttWorkers
    /\ w.pc = "complete"
    /\ LET state == sttSessions[w.sid]
           pendingFinal == IF state = Nil THEN FALSE ELSE state.PendingFinal
       IN /\ sttSessions' =
                IF state = Nil THEN sttSessions
                ELSE [sttSessions EXCEPT ![w.sid] =
                        [state EXCEPT !.Inflight = FALSE,
                                      !.LastPartial =
                                          IF w.final THEN @ ELSE sttNow]]
          /\ sttWorkers' =
                IF pendingFinal /\ ~w.final
                THEN (sttWorkers \ {w}) \cup {[w EXCEPT !.pc = "followup"]}
                ELSE sttWorkers \ {w}
    /\ UNCHANGED <<sttCfg, sttHandlers, sttNow, sttFrames,
                   sttFinalSeen, sttArrived, sttFinalDone, sttFinalText, busVars, last>>

\* The completion section with the follow-up left out after a recognizer
\* error (line 173).
transcribeComplete_NoFollowupOnError(w) ==
    /\ w \in sttWorkers
    /\ w.pc = "complete"
    /\ LET state == sttSessions[w.sid]
           pendingFinal == IF state = Nil THEN FALSE ELSE state.PendingFinal
       IN /\ sttSessions' =
                IF state = Nil THEN sttSessions
                ELSE IF w.final THEN [sttSessions EXCEPT ![w.sid] = Nil]
                ELSE [sttSessions EXCEPT ![w.sid] =
                        [state EXCEPT !.Inflight = FALSE,
                                      !.LastPartial = sttNow]]
          /\ sttWorkers' =
                IF pendingFinal /\ ~w.final /\ ~w.err
                THEN (sttWorkers \ {w}) \cup {[w EXCEPT !.pc = "followup"]}
                ELSE sttWorkers \ {w}
    /\ UNCHANGED <<sttCfg, sttHandlers, sttNow, sttFrames,
                   sttFinalSeen, sttArrived, sttFinalDone, sttFinalText, busVars, last>>

\* The goroutine, lines 158-171: the locked completion section.
transcribeComplete(w) ==
    /\ w \in sttWorkers
    /\ w.pc = "complete"
    /\ LET state == sttSessions[w.sid]
           pendingFinal == IF state = Nil THEN FALSE ELSE state.PendingFinal
       IN /\ sttSessions' =
                IF state = Nil THEN sttSessions
                ELSE IF w.final THEN [sttSessions EXCEPT ![w.sid] = Nil]
                ELSE [sttSessions EXCEPT ![w.sid] =
                        [state EXCEPT !.Inflight = FALSE,
                                      !.LastPartial = sttNow]]
          /\ sttWorkers' =
                IF pendingFinal /\ ~w.final
                THEN (sttWorkers \ {w}) \cup {[w EXCEPT !.pc = "followup"]}
                ELSE sttWorkers \ {w}
    /\ UNCHANGED <<sttCfg, sttHandlers, sttNow, sttFrames,
                   sttFinalSeen, sttArrived, sttFinalDone, sttFinalText, busVars, last>>

\* The goroutine, lines 173-175: the follow-up final transcription.
transcribeFollowup(w) ==
    /\ w \in sttWorkers
    /\ w.pc = "followup"
    /\ LET r == scheduleTranscription(w.sid, TRUE)
       IN /\ sttSessions' = r.sessions
          /\ sttWorkers' = (sttWorkers \ {w}) \cup r.started
    /\ UNCHANGED <<sttCfg, sttHandlers, sttNow, sttFrames, sttFinalSeen, sttArrived,
                   sttFinalDone, sttFinalText, busVars, last>>

\* Time passes.
sttTick ==
    /\ sttNow < MaxNow
    /\ sttNow' = sttNow + 1
    /\ UNCHANGED <<sttCfg, sttSessions, sttHandlers, sttWorkers,
                   sttFrames, sttFinalSeen, sttArrived, sttFinalDone, sttFinalText,
                   busVars, last>>

\* What a recognizer may return: an error, an empty text, a text.
RecognizerResults ==
    {[err |-> TRUE, text |-> ""], [err |-> FALSE, text |-> ""],
     [err |-> FALSE, text |-> "hello"]}

Transcribing(sid) == {w \in sttWorkers : w.sid = sid /\ w.pc = "transcribe"}

FinalPublished(sid) ==
    \E i \in 1..Len(busLog) :
        /\ busLog[i].subject = SubjectTranscriptFinal
        /\ busLog[i].session_id = sid

(***************************************************************************)
(* Voice router                                                            *)
(***************************************************************************)
DefaultVoice == "default-voice"
DefaultTier == "balanced"
Target == "speaker"

\* NewService, line 57: the latency histogram was created.
latencyEnabled == TRUE

InitRouter ==
    /\ rSessions = [s \in SessionIds |-> Nil]
    /\ rSpans = <<>>
    /\ rSamples = [s \in SessionIds |-> 0]
    /\ rPendingTTS = <<>>
    /\ rDonePending = <<>>
    /\ rRemoved = [s \in SessionIds |-> 0]
    /\ rMsgs = 0

RemoveAt(seq, i) == SubSeq(seq, 1, i - 1) \o SubSeq(seq, i + 1, Len(seq))

\* handleTranscript, lines 143-151: the session stored for a transcript.
transcriptSession(sessions, transcript, span) ==
    [sessions EXCEPT ![transcript.session_id] =
        [LastPrompt |-> transcript.text, Voice |-> DefaultVoice,
         Tier |-> DefaultTier, Span |-> span]]

\* handleTranscript (lines 124-162).
handleTranscript(transcript) ==
    /\ rMsgs' = rMsgs + 1
    /\ last' = [op |-> "handleTranscript", sid |-> transcript.session_id,
                text |-> transcript.text]
    /\ IF transcript.text = ""
       THEN UNCHANGED <<rSessions, rSpans, busLog>>
       ELSE /\ rSpans' = Append(rSpans, [session_id |-> transcript.session_id,
                                         events |-> <<>>, ended |-> FALSE])
            /\ rSessions' = transcriptSession(rSessions, transcript,
                                              Len(rSpans) + 1)
            /\ Publish([subject |-> SubjectLLMRequest,
                        session_id |-> transcript.session_id,
                        prompt |-> transcript.text, tier |-> DefaultTier])
    /\ UNCHANGED <<rSamples, rPendingTTS, rDonePending, rRemoved>>

\* handleLLMResponse, lines 182-205: the TTS requests built for a response,
\* given the session found under the lock.
llmResponseRequests(state, resp) ==
    <<[subject |-> SubjectTTSRequest, session_id |-> resp.session_id,
       text |-> resp.content,
       voice |-> IF state # Nil /\ state.Voice # "" THEN state.Voice
                 ELSE DefaultVoice,
       target |-> Target]>>

\* handleLLMResponse (lines 172-213) up to the go statement.
handleLLMResponse(resp) ==
    /\ rMsgs' = rMsgs + 1
    /\ last' = [op |-> "handleLLMResponse", sid |-> resp.session_id,
                content |-> resp.content]
    /\ IF resp.content = ""
       THEN UNCHANGED <<rSpans, rPendingTTS>>
       ELSE LET state == rSessions[resp.session_id] IN
            /\ rSpans' = IF state = Nil THEN rSpans
                         ELSE [rSpans EXCEPT ![state.Span].events =
                                  Append(@, "llm.response.final")]
            /\ rPendingTTS' = rPendingTTS \o llmResponseRequests(state, resp)
    /\ UNCHANGED <<rSessions, rSamples, rDonePending, rRemoved, busLog>>

\* handleLLMResponse, lines 207-212: the goroutine publishes the request.
publishTTSRequest(i) ==
    /\ i \in 1..Len(rPendingTTS)
    /\ Publish(rPendingTTS[i])
    /\ rPendingTTS' = RemoveAt(rPendingTTS, i)
    /\ last' = [op |-> "publishTTSRequest", sid |-> rPendingTTS[i].session_id]
    /\ UNCHANGED <<rSessions, rSpans, rSamples, rDonePending, rRemoved, rMsgs,
                   cursor>>

\* The locked section of handleTTSDone without the delete of line 236.
ttsDoneLocked_NoDelete(sessions, sid) ==
    IF sessions[sid] = Nil
    THEN [sessions |-> sessions, found |-> <<>>]
    ELSE [sessions |-> sessions,
          found |-> <<[session_id |-> sid, state |-> sessions[sid]]>>]

\* handleTTSDone, lines 233-238: the locked section.  Yields the session
\* table it leaves and the states it goes on with.
ttsDoneLocked(sessions, sid) ==
    IF sessions[sid] = Nil
    THEN [sessions |-> sessions, found |-> <<>>]
    ELSE [sessions |-> [sessions EXCEPT ![sid] = Nil],
          found |-> <<[session_id |-> sid, state |-> sessions[sid]]>>]

\* handleTTSDone (lines 223-242) up to the end of the locked section.
handleTTSDone(status) ==
    /\ rMsgs' = rMsgs + 1
    /\ last' = [op |-> "handleTTSDone", sid |-> status.session_id,
                completed |-> status.completed]
    /\ IF ~status.completed
       THEN UNCHANGED <<rSessions, rDonePending, rRemoved>>
       ELSE LET r == ttsDoneLocked(rSessions, status.session_id) IN
            /\ rSessions' = r.sessions
            /\ rDonePending' = rDonePending \o r.found
            /\ rRemoved' = [rRemoved EXCEPT ![status.session_id] =
                               @ + Len(r.found)]
    /\ UNCHANGED <<rSpans, rSamples, rPendingTTS, busLog>>

\* handleTTSDone, lines 244-257: the span is ended, the latency is recorded.
handleTTSDoneRecord(i) ==
    /\ i \in 1..Len(rDonePending)
    /\ LET d == rDonePending[i] IN
       /\ rSpans' = [rSpans EXCEPT ![d.state.Span] =
                        [@ EXCEPT !.events = Append(@, "tts.done"),
                                  !.ended = TRUE]]
       /\ rSamples' = IF latencyEnabled
                      THEN [rSamples EXCEPT ![d.session_id] = @ + 1]
                      ELSE rSamples
       /\ last' = [op |-> "recordLatency", sid |-> d.session_id]
    /\ rDonePending' = RemoveAt(rDonePending, i)
    /\ UNCHANGED <<rSessions, rPendingTTS, rRemoved, rMsgs, busVars>>

Transcripts ==
    [subject : {SubjectTranscriptFinal}, session_id : SessionIds,
     text : {"", "hi"}, partial : {FALSE}]
LLMResponses ==
    [subject : {SubjectLLMResponseFinal}, session_id : SessionIds,
     content : {"", "ok"}, partial : {FALSE}]
TTSStatuses ==
    [subject : {SubjectTTSDone}, session_id : SessionIds,
     completed : BOOLEAN]

DonePendingFor(sid) ==
    Cardinality({i \in 1..Len(rDonePending) : rDonePending[i].session_id = sid})

(***************************************************************************)
(* Capability registry                                                     *)
(***************************************************************************)
LocalNode == "local"
NodeIds == {LocalNode, "peer"}
Roles == {"", "worker"}
CapabilityLists == {<<>>, <<[name |-> "stt", tier |-> "fast"]>>}
LocalRole == "runtime"
LocalCapabilities == <<[name |-> "llm", tier |-> "balanced"]>>

\* updateNode with role and capabilities always overwritten (lines 210-215
\* without their tests).
updateNode_Overwrite(nodes, nodeID, role, capabilities, timestamp, healthy) ==
    [nodes EXCEPT ![nodeID] =
        [ID |-> nodeID, Role |-> role, Capabilities |-> capabilities,
         LastSeen |-> timestamp, Healthy |-> healthy]]

\* updateNode (lines 201-218).
updateNode(nodes, nodeID, role, capabilities, timestamp, healthy) ==
    LET node == IF nodes[nodeID] = Nil
                THEN [ID |-> nodeID, Role |-> "", Capabilities |-> <<>>,
                      LastSeen |-> 0, Healthy |-> FALSE]
                ELSE nodes[nodeID]
    IN [nodes EXCEPT ![nodeID] =
          [node EXCEPT !.Role = IF role # "" THEN role ELSE @,
                       !.Capabilities = IF Len(capabilities) > 0
                                        THEN capabilities ELSE @,
                       !.LastSeen = timestamp,
                       !.Healthy = healthy]]

\* NewRegistry (lines 59-88): the map after the announce of line 83.
InitRegistry ==
    /\ regNow = 1
    /\ regStarted = TRUE
    /\ regNodes = updateNode([n \in NodeIds |-> Nil], LocalNode, LocalRole,
                             LocalCapabilities, 1, TRUE)

SubjectAnnounce == "ctrl.node.announce"

\* announce (lines 146-162): the message is published and, if that
\* succeeded, the local node is recorded as healthy.
announce(ok) ==
    IF ok
    THEN /\ Publish([subject |-> SubjectAnnounce, node_id |-> LocalNode,
                     role |-> LocalRole, capabilities |-> LocalCapabilities,
                     timestamp |-> regNow])
         /\ regNodes' = updateNode(regNodes, LocalNode, LocalRole,
                                   LocalCapabilities, regNow, TRUE)
    ELSE UNCHANGED <<busLog, regNodes>>

\* NewRegistry (lines 59-88): the subscriptions are made, the heartbeat and
\* the health monitor are started and the node is announced; a failed
\* announce is logged.
NewRegistry(ok) ==
    /\ ~regStarted
    /\ regStarted' = TRUE
    /\ announce(ok)
    /\ last' = [op |-> "announce", err |-> ~ok]
    /\ UNCHANGED <<regNow, cursor>>

\* handleAnnounce (lines 177-187); timestamp 0 is the zero time.
handleAnnounce(nodeID, role, capabilities, timestamp) ==
    /\ regNodes' = updateNode(regNodes, nodeID, role, capabilities,
                              IF timestamp = 0 THEN regNow ELSE timestamp,
                              TRUE)
    /\ last' = [op |-> "handleAnnounce", node |-> nodeID,
                timestamp |-> timestamp]
    /\ UNCHANGED <<regNow, regStarted>>

\* handleHeartbeat (lines 189-199).
handleHeartbeat(nodeID, timestamp) ==
    /\ regNodes' = updateNode(regNodes, nodeID, "", <<>>,
                              IF timestamp = 0 THEN regNow ELSE timestamp,
                              TRUE)
    /\ last' = [op |-> "handleHeartbeat", node |-> nodeID,
                timestamp |-> timestamp]
    /\ UNCHANGED <<regNow, regStarted>>

\* The test of line 227 with >= in place of >.
timedOut_AtTimeout(now, lastSeen) == now - lastSeen >= HeartbeatTimeout

\* evaluateHealth, line 227: the node has not been seen for the timeout.
timedOut(now, lastSeen) == now - lastSeen > HeartbeatTimeout

\* evaluateHealth (lines 220-231), run by monitorHealth on every tick.
evaluateHealth ==
    /\ regNodes' = [n \in NodeIds |->
          IF regNodes[n] # Nil /\ timedOut(regNow, regNodes[n].LastSeen)
          THEN [regNodes[n] EXCEPT !.Healthy = FALSE]
          ELSE regNodes[n]]
    /\ last' = [op |-> "evaluateHealth"]
    /\ UNCHANGED <<regNow, regStarted>>

\* Time passes.
regTick ==
    /\ regNow < MaxRegNow
    /\ regNow' = regNow + 1
    /\ last' = [op |-> "tick"]
    /\ UNCHANGED <<regNodes, regStarted>>

\* Query (lines 244-256) with a nil filter: the nodes as reported.
Query == {regNodes[n] : n \in {m \in NodeIds : regNodes[m] # Nil}}

(***************************************************************************)
(* Audit event store                                                       *)
(***************************************************************************)
AuditIds == {"old", "new"}
Actors == {"actor-1", "actor-2"}
Payloads == {"hello"}
\* The callers of AppendSession: each actor with its privacy scope.
Callers ==
    {[actor |-> a,
      privacy |-> IF a = "actor-1" THEN "session" ELSE "private"] :
        a \in Actors}

StoreConfigs ==
    [RetentionMode : {"ephemeral", "session", "persistent"},
     RetentionDays : {0, 1}, MaxSessions : {0, 1}]

\* A store that keeps rows whatever its retention mode.
Stored_Always == TRUE

Stored == stCfg.RetentionMode # "ephemeral"

LiveSessions(sessions) == {sid \in AuditIds : sessions[sid] # Nil}

\* Prune, lines 294-302: rows of events and of sessions older than the cutoff
\* are deleted; deleting a session deletes its events (ON DELETE CASCADE).
pruneEventsByAge(events, cutoff) ==
    SelectSeq(events, LAMBDA e : ~(e.created_at < cutoff))

pruneSessionsByAge(sessions, cutoff) ==
    [sid \in AuditIds |->
        IF sessions[sid] # Nil /\ sessions[sid].created_at < cutoff
        THEN Nil ELSE sessions[sid]]

\* A schema without ON DELETE CASCADE.
cascade_None(events, sessions) == events

cascade(events, sessions) ==
    SelectSeq(events, LAMBDA e : sessions[e.session_id] # Nil)

\* The session cap deleting one more session on every call.
keepSets_DropOne(sessions, max) ==
    {K \in SUBSET LiveSessions(sessions) :
        /\ Cardinality(K) = IF Cardinality(LiveSessions(sessions)) = 0
                            THEN 0 ELSE Cardinality(LiveSessions(sessions)) - 1
        /\ \A k \in K, d \in LiveSessions(sessions) \ K :
              sessions[k].created_at >= sessions[d].created_at}

\* Prune, lines 303-310: the sets of sessions that ORDER BY created_at DESC
\* LIMIT -1 OFFSET max may leave; rows with equal created_at come in any order.
keepSets(sessions, max) ==
    {K \in SUBSET LiveSessions(sessions) :
        /\ Cardinality(K) = IF Cardinality(LiveSessions(sessions)) < max
                            THEN Cardinality(LiveSessions(sessions)) ELSE max
        /\ \A k \in K, d \in LiveSessions(sessions) \ K :
              sessions[k].created_at >= sessions[d].created_at}

\* Prune (lines 276-313) when the store keeps K under the session cap.
pruned(sessions, events, K) ==
    LET byAge == stCfg.RetentionDays > 0
        cutoff == stClock - stCfg.RetentionDays
        s1 == IF byAge THEN pruneSessionsByAge(sessions, cutoff) ELSE sessions
        e1 == IF byAge THEN cascade(pruneEventsByAge(events, cutoff), s1)
              ELSE events
        s2 == IF stCfg.MaxSessions > 0
              THEN [sid \in AuditIds |-> IF sid \in K THEN s1[sid] ELSE Nil]
              ELSE s1
    IN [sessions |-> s2, events |-> cascade(e1, s2)]

\* The choices of K open to Prune.
pruneChoices(sessions) ==
    LET byAge == stCfg.RetentionDays > 0
        cutoff == stClock - stCfg.RetentionDays
        s1 == IF byAge THEN pruneSessionsByAge(sessions, cutoff) ELSE sessions
    IN IF stCfg.MaxSessions > 0 THEN keepSets(s1, stCfg.MaxSessions)
       ELSE {LiveSessions(s1)}

\* Open (lines 130-170): a store holding nothing yet.
InitStore ==
    /\ stCfg \in StoreConfigs
    /\ stSessions = [sid \in AuditIds |-> Nil]
    /\ stEvents = <<>>
    /\ stNextId = 1
    /\ stClock = 1

\* INSERT OR REPLACE in place of the upsert: the row is written anew, and the
\* delete of the old row cascades to its events.
AppendSession_Replace(sessionID, actorID, privacy) ==
    /\ stSessions' =
          IF ~Stored THEN stSessions
          ELSE [stSessions EXCEPT ![sessionID] =
                  [actor_id |-> actorID, privacy_scope |-> privacy,
                   created_at |-> stClock]]
    /\ stEvents' = IF Stored /\ stSessions[sessionID] # Nil
                   THEN SelectSeq(stEvents,
                                  LAMBDA e : e.session_id # sessionID)
                   ELSE stEvents
    /\ last' = [op |-> "AppendSession", sid |-> sessionID, actor |-> actorID,
                privacy |-> privacy, err |-> FALSE]
    /\ UNCHANGED <<stCfg, stNextId, stClock>>

\* AppendSession (lines 217-227): insert, or update actor and privacy scope.
AppendSession(sessionID, actorID, privacy) ==
    /\ stSessions' =
          IF ~Stored THEN stSessions
          ELSE IF stSessions[sessionID] = Nil
          THEN [stSessions EXCEPT ![sessionID] =
                  [actor_id |-> actorID, privacy_scope |-> privacy,
                   created_at |-> stClock]]
          ELSE [stSessions EXCEPT ![sessionID] =
                  [@ EXCEPT !.actor_id = actorID, !.privacy_scope = privacy]]
    /\ last' = [op |-> "AppendSession", sid |-> sessionID, actor |-> actorID,
                privacy |-> privacy, err |-> FALSE]
    /\ UNCHANGED <<stCfg, stEvents, stNextId, stClock>>

\* AppendEvent (lines 230-242); CreatedAt 0 is the zero time.  The insert
\* fails when the session row is missing (FOREIGN KEY).
AppendEvent(evt) ==
    /\ stNextId <= MaxEvents
    /\ LET ok == Stored /\ stSessions[evt.SessionID] # Nil
           row == [id |-> stNextId, session_id |-> evt.SessionID,
                   event_type |-> evt.Type, payload |-> evt.Payload,
                   created_at |-> IF evt.CreatedAt = 0 THEN stClock
                                  ELSE evt.CreatedAt]
       IN /\ stEvents' = IF ok THEN Append(stEvents, row) ELSE stEvents
          /\ stNextId' = IF ok THEN stNextId + 1 ELSE stNextId
          /\ last' = [op |-> "AppendEvent", sid |-> evt.SessionID, ok |-> ok,
                      err |-> Stored /\ ~ok]
    /\ UNCHANGED <<stCfg, stSessions, stClock>>

\* Prune (lines 276-313).  The step remembers the store it started from.
Prune ==
    /\ IF ~Stored
       THEN UNCHANGED <<stSessions, stEvents>>
       ELSE \E K \in pruneChoices(stSessions) :
               LET r == pruned(stSessions, stEvents, K) IN
               /\ stSessions' = r.sessions
               /\ stEvents' = r.events
    /\ last' = [op |-> "Prune", sessions |-> stSessions, events |-> stEvents,
                again |-> last.op = "Prune", err |-> FALSE]
    /\ UNCHANGED <<stCfg, stNextId, stClock>>

\* Open (lines 130-170) on the database file of an earlier run: the schema is
\* there already, and Open prunes (line 165).
Open ==
    /\ IF ~Stored
       THEN UNCHANGED <<stSessions, stEvents>>
       ELSE \E K \in pruneChoices(stSessions) :
               LET r == pruned(stSessions, stEvents, K) IN
               /\ stSessions' = r.sessions
               /\ stEvents' = r.events
    /\ last' = [op |-> "Open", sessions |-> stSessions, events |-> stEvents,
                err |-> FALSE]
    /\ UNCHANGED <<stCfg, stNextId, stClock>>

DefaultLimit == 100

\* ListSessionEvents, lines 249-251, taking the default only below zero.
effectiveLimit_ZeroKept(limit) == IF limit < 0 THEN DefaultLimit ELSE limit

\* ListSessionEvents, lines 249-251: the LIMIT of the query.
effectiveLimit(limit) == IF limit <= 0 THEN DefaultLimit ELSE limit

\* ListSessionEvents, lines 252-272: the results the query may give.  ORDER BY
\* created_at ASC leaves rows with equal created_at in any order.
listResults(sessionID, limit) ==
    LET rows == SelectSeq(stEvents, LAMBDA e : e.session_id = sessionID)
        n == Len(rows)
        lim == effectiveLimit(limit)
        orders == {f \in [1..n -> 1..n] :
                     /\ \A i, j \in 1..n : i # j => f[i] # f[j]
                     /\ \A i, j \in 1..n :
                           i < j => rows[f[i]].created_at
                                       <= rows[f[j]].created_at}
    IN {SubSeq([k \in 1..n |-> rows[f[k]]], 1, IF n < lim THEN n ELSE lim) :
           f \in orders}

\* ListSessionEvents (lines 245-273).
ListSessionEvents(sessionID, limit) ==
    /\ \E result \in (IF Stored THEN listResults(sessionID, limit)
                       ELSE {<<>>}) :
          last' = [op |-> "ListSessionEvents", sid |-> sessionID,
                   limit |-> limit, result |-> result, err |-> FALSE]
    /\ UNCHANGED stVars

\* Time passes.
stTick ==
    /\ stClock < MaxDay
    /\ stClock' = stClock + 1
    /\ last' = [op |-> "tick"]
    /\ UNCHANGED <<stCfg, stSessions, stEvents, stNextId>>

Events ==
    [SessionID : AuditIds, Type : {"note"}, Payload : Payloads,
     CreatedAt : {0, 1}]

EventsOf(events, sid) == SelectSeq(events, LAMBDA e : e.session_id = sid)

(***************************************************************************)
(* Skill host: the host ABI                                                *)
(***************************************************************************)
PublishOK == 0
PublishErrNotAllowed == 1
PublishErrRuntime == 2

SkillSubjects == {"allowed.subject", "other.subject"}
Permissions == {"bus:publish", "bus:subscribe"}

\* addSkill, lines 166-184 of part_007: the sets of a binding.  Validate
\* admits no manifest with an empty permissions list.
ConfiguredConcurrency == {0, 2}

\* New (lines 55-89 of part_007): no invocation yet, the service healthy.
InitInvoke ==
    /\ skCfg \in ConfiguredConcurrency
    /\ skInv = <<>>
    /\ skHealthy = TRUE

InitInvokeIdle ==
    /\ skCfg = 1
    /\ skInv = <<>>
    /\ skHealthy = TRUE

InitSkill ==
    /\ skBinding \in [permissions : SUBSET Permissions \ {{}},
                      publishSet : SUBSET SkillSubjects]
    /\ skBus = <<>>
    /\ skAudit = <<>>
    /\ skCalls = 0
    /\ InitInvokeIdle

InitSkillIdle ==
    /\ skBinding = [permissions |-> {"bus:subscribe"}, publishSet |-> {}]
    /\ skBus = <<>>
    /\ skAudit = <<>>
    /\ skCalls = 0
    /\ InitInvokeIdle

\* AllowPublish without the test of the publish set (lines 254-256).
AllowPublish_PermissionOnly(binding, subject) ==
    "bus:publish" \in binding.permissions

\* invoke, lines 250-258 of part_007: AllowPublish returns no error.
AllowPublish(binding, subject) ==
    /\ "bus:publish" \in binding.permissions
    /\ subject \in binding.publishSet

\* hostPublishFn recording the audit event before the publish of line 196.
hostPublishFn_AuditFirst(binding, c) ==
    LET none(code) == [code |-> code, published |-> <<>>, audit |-> <<>>]
        event == <<[Type |-> "skill.publish", subject |-> c.subject,
                    payload_bytes |-> c.payloadLen]>>
    IN
    IF ~c.memory THEN none(PublishErrRuntime)
    ELSE IF ~c.subjectOk THEN none(PublishErrRuntime)
    ELSE IF ~AllowPublish(binding, c.subject) THEN none(PublishErrNotAllowed)
    ELSE IF c.payloadLen > 0 /\ ~c.payloadOk THEN none(PublishErrRuntime)
    ELSE IF ~c.busOk
    THEN [code |-> PublishErrRuntime, published |-> <<>>, audit |-> event]
    ELSE [code |-> PublishOK,
          published |-> <<[subject |-> c.subject,
                           payload_bytes |-> c.payloadLen]>>,
          audit |-> event]

\* hostPublishFn (runtime.go lines 157-209) for a call c of the guest: whether
\* the module has a memory, whether subject and payload can be read from it,
\* the subject read, the payload length, and whether the bus accepts the
\* publish.  Yields the code returned, the publishes and the audit events.
hostPublishFn(binding, c) ==
    LET none(code) == [code |-> code, published |-> <<>>, audit |-> <<>>] IN
    IF ~c.memory THEN none(PublishErrRuntime)
    ELSE IF ~c.subjectOk THEN none(PublishErrRuntime)
    ELSE IF ~AllowPublish(binding, c.subject) THEN none(PublishErrNotAllowed)
    ELSE IF c.payloadLen > 0 /\ ~c.payloadOk THEN none(PublishErrRuntime)
    ELSE IF ~c.busOk THEN none(PublishErrRuntime)
    ELSE [code |-> PublishOK,
          published |-> <<[subject |-> c.subject,
                           payload_bytes |-> c.payloadLen]>>,
          audit |-> <<[Type |-> "skill.publish", subject |-> c.subject,
                       payload_bytes |-> c.payloadLen]>>]

HostPublishCalls ==
    [memory : BOOLEAN, subjectOk : BOOLEAN, subject : SkillSubjects,
     payloadLen : {0, 7}, payloadOk : BOOLEAN, busOk : BOOLEAN]

\* A guest calls host_publish.
host_publish(c) ==
    /\ skCalls < MaxHostCalls
    /\ skCalls' = skCalls + 1
    /\ LET r == hostPublishFn(skBinding, c) IN
       /\ skBus' = skBus \o r.published
       /\ skAudit' = skAudit \o r.audit
       /\ last' = [op |-> "host_publish", call |-> c, code |-> r.code]
    /\ UNCHANGED <<skBinding, skCfg, skInv, skHealthy>>

\* New, lines 65-67 and 76: the capacity of the semaphore.
semaCap(configured) == IF configured <= 0 THEN 1 ELSE configured

\* The invocations that hold a slot of the semaphore (makeHandler, lines
\* 219-220): from the send on sema to the return of invoke.
Holders(inv) == {i \in 1..Len(inv) : inv[i].pc \in {"init", "load", "run"}}

\* A handler that calls invoke without waiting for the semaphore.
semaFree_NoLimit(inv, configured) == TRUE

\* makeHandler, line 219: the send on sema goes through.
semaFree(inv, configured) == Cardinality(Holders(inv)) < semaCap(configured)

InvokeUnchanged == UNCHANGED <<skBinding, skBus, skCalls, skCfg, skHealthy>>

\* makeHandler (lines 208-225): a message arrives and its goroutine starts.
makeHandler ==
    /\ Len(skInv) < MaxInvocations
    /\ skInv' = Append(skInv, [pc |-> "queued"])
    /\ last' = [op |-> "makeHandler", id |-> Len(skInv) + 1]
    /\ UNCHANGED skAudit
    /\ InvokeUnchanged

\* makeHandler, line 219: the goroutine takes a slot of the semaphore.
acquire(i) ==
    /\ skInv[i].pc = "queued"
    /\ semaFree(skInv, skCfg)
    /\ skInv' = [skInv EXCEPT ![i].pc = "init"]
    /\ last' = [op |-> "acquire", id |-> i]
    /\ UNCHANGED skAudit
    /\ InvokeUnchanged

\* invoke, lines 266-270: skillrt.New builds the sandbox, or fails.
invokeNew(i, ok) ==
    /\ skInv[i].pc = "init"
    /\ skInv' = [skInv EXCEPT ![i].pc = IF ok THEN "load" ELSE "done"]
    /\ last' = [op |-> "invokeNew", id |-> i,
                err |-> IF ok THEN "" ELSE "init runtime"]
    /\ UNCHANGED skAudit
    /\ InvokeUnchanged

\* invoke, lines 272-285: the module is loaded, or the load fails; after a
\* load skill.invoke.start is recorded.
invokeLoad(i, ok) ==
    /\ skInv[i].pc = "load"
    /\ skInv' = [skInv EXCEPT ![i].pc = IF ok THEN "run" ELSE "done"]
    /\ skAudit' = IF ok
                  THEN Append(skAudit, [Type |-> "skill.invoke.start",
                                        invocation_id |-> i])
                  ELSE skAudit
    /\ last' = [op |-> "invokeLoad", id |-> i,
                err |-> IF ok THEN "" ELSE "load skill"]
    /\ InvokeUnchanged

\* What the entrypoint may return: nil, an error of the guest, or the error
\* of the 30 s deadline.
EntryResults == {"", "entrypoint error", "context deadline exceeded"}

\* invoke, lines 287-297: the entrypoint returns; the outcome is recorded.
invokeReturn(i, err) ==
    /\ skInv[i].pc = "run"
    /\ skInv' = [skInv EXCEPT ![i].pc = "done"]
    /\ skAudit' = Append(skAudit,
                         IF err # ""
                         THEN [Type |-> "skill.invoke.error",
                               invocation_id |-> i, error |-> err]
                         ELSE [Type |-> "skill.invoke.complete",
                               invocation_id |-> i])
    /\ last' = [op |-> "invokeReturn", id |-> i, err |-> err]
    /\ InvokeUnchanged

(***************************************************************************)
(* LLM service and TTS service                                             *)
(***************************************************************************)
InitServices ==
    /\ llmWorkers = <<>>
    /\ ttsWorkers = <<>>
    /\ llmReqs = [sid \in SessionIds |-> Nil]
    /\ ttsSeen = {}

\* strings.TrimSpace, on texts that carry no white space at their ends.
TrimSpace(str) == str

\* mockRecognizer.Transcribe (part_016 lines 14-23).
MockTranscribe(pcm, final) ==
    [err |-> FALSE,
     text |-> "[" \o (IF final THEN "final" ELSE "partial")
                  \o " transcript length=" \o ToString(Len(pcm)) \o "]"]

\* mockGenerator.Generate (part_013 lines 13-26): the fragments delivered.
MockGenerate(req) ==
    <<[session_id |-> req.session_id,
       content |-> "[mock completion for " \o TrimSpace(req.prompt) \o "]",
       partial |-> FALSE]>>

\* execGenerator.Generate (llm/exec.go lines 37-75): the fragment delivered
\* for the decoded output of the command.
ExecGenerate(req, resp) ==
    <<[session_id |-> req.session_id, content |-> resp.content,
       partial |-> FALSE]>>

\* ollamaGenerator.Generate (part_013 lines 129-162): one fragment for each
\* line of the stream, partial unless the line says done.
OllamaGenerate(req, lines) ==
    [i \in 1..Len(lines) |->
       [session_id |-> req.session_id, content |-> lines[i].response,
        partial |-> ~lines[i].done]]

\* mockSynth.Synthesize (tts/mock.go lines 17-39): the chunks delivered.
MockSynthesize(req) ==
    <<[session_id |-> req.session_id, pcm |-> <<>>, final |-> TRUE]>>

\* llm handleRequest (part_014 lines 66-103): a goroutine is started for the
\* request; the generator will deliver the given fragments.
llmHandleRequest(req, chunks) ==
    /\ llmWorkers' = Append(llmWorkers, [req |-> req, chunks |-> chunks])
    /\ llmReqs' = [llmReqs EXCEPT ![req.session_id] =
                      [delivered |-> <<>>, result |-> "running"]]
    /\ last' = [op |-> "llmHandleRequest", sid |-> req.session_id]
    /\ UNCHANGED <<ttsWorkers, ttsSeen, busLog>>

\* llm publishChunk without the test of line 106.
llmPublishChunk_EmptyToo(chunk) ==
    <<[subject |-> IF chunk.partial THEN SubjectLLMResponsePartial
                   ELSE SubjectLLMResponseFinal,
       session_id |-> chunk.session_id, content |-> chunk.content,
       partial |-> chunk.partial]>>

\* llm publishChunk (part_014 lines 105-132): the messages put on the bus.
llmPublishChunk(chunk) ==
    IF chunk.content = "" THEN <<>>
    ELSE <<[subject |-> IF chunk.partial THEN SubjectLLMResponsePartial
                        ELSE SubjectLLMResponseFinal,
            session_id |-> chunk.session_id, content |-> chunk.content,
            partial |-> chunk.partial]>>

\* The generator delivers its next fragment to the consumer of line 94; after
\* the last one Generate returns nil and the goroutine ends.
llmDeliver(i) ==
    /\ i \in 1..Len(llmWorkers)
    /\ llmWorkers[i].chunks # <<>>
    /\ LET w == llmWorkers[i]
           sid == w.req.session_id
       IN
       /\ busLog' = busLog \o llmPublishChunk(Head(w.chunks))
       /\ llmWorkers' = IF Len(w.chunks) = 1 THEN RemoveAt(llmWorkers, i)
                        ELSE [llmWorkers EXCEPT ![i].chunks = Tail(@)]
       /\ llmReqs' = [llmReqs EXCEPT
             ![sid].delivered = Append(@, Head(w.chunks)),
             ![sid].result = IF Len(w.chunks) = 1 THEN "ok" ELSE @]
       /\ last' = [op |-> "llmPublishChunk", sid |-> sid]
    /\ UNCHANGED <<ttsWorkers, ttsSeen, cursor>>

\* Generate returns without delivering a further fragment (part_014 lines
\* 94-101): with an error (the context ended, the backend failed, a line
\* did not decode), or with nil when the stream held no fragment at all.
llmReturn(i, err) ==
    /\ i \in 1..Len(llmWorkers)
    /\ err \/ llmWorkers[i].chunks = <<>>
    /\ LET sid == llmWorkers[i].req.session_id IN
       /\ llmWorkers' = RemoveAt(llmWorkers, i)
       /\ llmReqs' = [llmReqs EXCEPT
             ![sid].result = IF err THEN "failed" ELSE "ok"]
       /\ last' = [op |-> "llmReturn", sid |-> sid]
    /\ UNCHANGED <<ttsWorkers, ttsSeen, busVars>>

\* A failed publish whose error the generator ignores: the fragment is lost
\* and the generator goes on to the next one.
llmPublishFails_Continue(i) ==
    /\ i \in 1..Len(llmWorkers)
    /\ llmWorkers[i].chunks # <<>>
    /\ Head(llmWorkers[i].chunks).content # ""
    /\ LET w == llmWorkers[i]
           sid == w.req.session_id
       IN
       /\ llmWorkers' = IF Len(w.chunks) = 1 THEN RemoveAt(llmWorkers, i)
                        ELSE [llmWorkers EXCEPT ![i].chunks = Tail(@)]
       /\ llmReqs' = [llmReqs EXCEPT ![sid].result = "failed"]
       /\ last' = [op |-> "llmPublishFails", sid |-> sid]
    /\ UNCHANGED <<ttsWorkers, ttsSeen, busVars>>

\* Publish fails for the next fragment (part_014 lines 127-130): publishChunk
\* returns the error to the generator, which returns it at once (part_013
\* lines 20, 159-161; llm/exec.go line 66), and the goroutine logs it and
\* ends (part_014 lines 97-100).  A fragment with empty content is not
\* published and cannot fail.
llmPublishFails(i) ==
    /\ i \in 1..Len(llmWorkers)
    /\ llmWorkers[i].chunks # <<>>
    /\ Head(llmWorkers[i].chunks).content # ""
    /\ LET sid == llmWorkers[i].req.session_id IN
       /\ llmWorkers' = RemoveAt(llmWorkers, i)
       /\ llmReqs' = [llmReqs EXCEPT ![sid].result = "failed"]
       /\ last' = [op |-> "llmPublishFails", sid |-> sid]
    /\ UNCHANGED <<ttsWorkers, ttsSeen, busVars>>

\* tts handleRequest (part_008 lines 61-76): a goroutine is started for the
\* request; the synthesizer will deliver the given chunks.
ttsHandleRequest(req, chunks) ==
    /\ ttsWorkers' = Append(ttsWorkers,
                            [req |-> req, chunks |-> chunks, sequence |-> 0])
    /\ ttsSeen' = ttsSeen \cup {<<req.session_id, req.target>>}
    /\ last' = [op |-> "ttsHandleRequest", sid |-> req.session_id]
    /\ UNCHANGED <<llmWorkers, llmReqs, busLog>>

\* tts publishChunk without the completion notice of lines 117-127.
ttsPublishChunk_NoDone(req, chunk, sequence) ==
    <<[subject |-> SubjectTTSAudio, session_id |-> req.session_id,
       target |-> req.target, sequence |-> sequence, pcm |-> chunk.pcm,
       final |-> chunk.final]>>

\* tts publishChunk with the completion notice sent before the audio.
ttsPublishChunk_DoneFirst(req, chunk, sequence) ==
    (IF chunk.final
     THEN <<[subject |-> SubjectTTSDone, session_id |-> req.session_id,
             target |-> req.target, completed |-> TRUE]>>
     ELSE <<>>)
    \o <<[subject |-> SubjectTTSAudio, session_id |-> req.session_id,
          target |-> req.target, sequence |-> sequence, pcm |-> chunk.pcm,
          final |-> chunk.final]>>

\* tts publishChunk (part_008 lines 103-128): the messages put on the bus.
ttsPublishChunk(req, chunk, sequence) ==
    <<[subject |-> SubjectTTSAudio, session_id |-> req.session_id,
       target |-> req.target, sequence |-> sequence, pcm |-> chunk.pcm,
       final |-> chunk.final]>>
    \o (IF chunk.final
        THEN <<[subject |-> SubjectTTSDone, session_id |-> req.session_id,
                target |-> req.target, completed |-> TRUE]>>
        ELSE <<>>)

\* The loop of tts handleRequest with a sequence counter that is shared by
\* the goroutines: the chunk is numbered by the messages already published.
ttsDeliver_SharedCounter(i) ==
    /\ i \in 1..Len(ttsWorkers)
    /\ ttsWorkers[i].chunks # <<>>
    /\ LET w == ttsWorkers[i]
           n == Cardinality({j \in 1..Len(busLog) :
                               busLog[j].subject = SubjectTTSAudio})
       IN
       /\ busLog' = busLog \o ttsPublishChunk(w.req, Head(w.chunks), n)
       /\ ttsWorkers' = IF Len(w.chunks) = 1 THEN RemoveAt(ttsWorkers, i)
                        ELSE [ttsWorkers EXCEPT ![i].chunks = Tail(@)]
       /\ last' = [op |-> "ttsPublishChunk", sid |-> w.req.session_id]
    /\ UNCHANGED <<llmWorkers, llmReqs, ttsSeen, cursor>>

\* The loop of tts handleRequest (part_008 lines 77-99) receives a chunk;
\* after the last one the channels are closed and the goroutine ends.
ttsDeliver(i) ==
    /\ i \in 1..Len(ttsWorkers)
    /\ ttsWorkers[i].chunks # <<>>
    /\ LET w == ttsWorkers[i] IN
       /\ busLog' = busLog \o ttsPublishChunk(w.req, Head(w.chunks), w.sequence)
       /\ ttsWorkers' = IF Len(w.chunks) = 1 THEN RemoveAt(ttsWorkers, i)
                        ELSE [ttsWorkers EXCEPT ![i].chunks = Tail(@),
                                                ![i].sequence = @ + 1]
       /\ last' = [op |-> "ttsPublishChunk", sid |-> w.req.session_id]
    /\ UNCHANGED <<llmWorkers, llmReqs, ttsSeen, cursor>>

\* The loop of tts handleRequest ends without a further chunk (part_008 lines
\* 88-98): the context is done (cancelled), or the synthesizer has closed
\* its channels without a chunk.
ttsReturn(i, cancelled) ==
    /\ i \in 1..Len(ttsWorkers)
    /\ cancelled \/ ttsWorkers[i].chunks = <<>>
    /\ ttsWorkers' = RemoveAt(ttsWorkers, i)
    /\ last' = [op |-> "ttsReturn", sid |-> ttsWorkers[i].req.session_id]
    /\ UNCHANGED <<llmWorkers, llmReqs, ttsSeen, busVars>>

(***************************************************************************)
(* Skill manifests and discovery (internal/skills/manifest/manifest.go,    *)
(* unnamed/part_007)                                                       *)
(***************************************************************************)
SkillNames == {"alpha", "beta"}

\* The manifests a skill.yaml may decode to (manifest.go lines 11-53), with
\* the fields that Validate and addSkill read.
Manifests ==
    [name : SkillNames \cup {""}, version : {"", "1.0"},
     mode : {"", "wasm", "python"}, module : {"", "skill.wasm"},
     entrypoint : {"", "run"}, publish : {<<>>, <<"skill.out">>},
     subscribe : {<<>>, <<"skill.in">>},
     permissions : {<<>>, <<"bus:publish">>}]

\* Validate without the test of the entrypoint (lines 84-86).
Validate_NoEntrypoint(m) ==
    IF m.name = "" THEN "metadata.name is required"
    ELSE IF m.version = "" THEN "metadata.version is required"
    ELSE IF m.mode = "" THEN "runtime.mode is required"
    ELSE IF m.mode # "wasm" THEN "runtime.mode not supported"
    ELSE IF m.module = "" THEN "runtime.module is required for wasm"
    ELSE IF Len(m.publish) = 0 /\ Len(m.subscribe) = 0
         THEN "capabilities.bus must declare publish or subscribe subjects"
    ELSE IF Len(m.permissions) = 0
         THEN "permissions must include at least one entry"
    ELSE ""

\* Validate (manifest.go lines 69-97): the error, "" for nil.
Validate(m) ==
    IF m.name = "" THEN "metadata.name is required"
    ELSE IF m.version = "" THEN "metadata.version is required"
    ELSE IF m.mode = "" THEN "runtime.mode is required"
    ELSE IF m.mode # "wasm" THEN "runtime.mode not supported"
    ELSE IF m.module = "" THEN "runtime.module is required for wasm"
    ELSE IF m.entrypoint = ""
         THEN "runtime.entrypoint is required for wasm"
    ELSE IF Len(m.publish) = 0 /\ Len(m.subscribe) = 0
         THEN "capabilities.bus must declare publish or subscribe subjects"
    ELSE IF Len(m.permissions) = 0
         THEN "permissions must include at least one entry"
    ELSE ""

Range(seq) == {seq[i] : i \in 1..Len(seq)}

\* New (part_007 lines 68-77): the map of skills is empty, the walk begins.
InitDiscovery ==
    /\ skSkills = [n \in SkillNames |-> Nil]
    /\ dscVisited = 0
    /\ dscResult = "walking"

\* No discovery is under way.
InitDiscoveryIdle ==
    /\ skSkills = [n \in SkillNames |-> Nil]
    /\ dscVisited = 0
    /\ dscResult = "started"

\* addSkill, lines 160-184: the binding made for a manifest.
newBinding(mf, manifestPath) ==
    [name |-> mf.name, manifestPath |-> manifestPath,
     publishSet |-> Range(mf.publish), subscribeList |-> mf.subscribe,
     permissions |-> Range(mf.permissions)]

\* addSkill registering the manifest also when its name is taken.
addSkillError_Overwrite(skills, loaded, mf) ==
    IF ~loaded THEN "load manifest"
    ELSE IF Validate(mf) # "" THEN "validate manifest"
    ELSE ""

\* addSkill (lines 142-158): the error it returns, "" for nil.
addSkillError(skills, loaded, mf) ==
    IF ~loaded THEN "load manifest"
    ELSE IF Validate(mf) # "" THEN "validate manifest"
    ELSE IF mf.name = "" THEN "manifest missing metadata.name"
    ELSE IF skills[mf.name] # Nil THEN "duplicate skill name"
    ELSE ""

\* The walk of loadSkills (lines 116-130) visits one more skill.yaml:
\* addSkill loads it (or fails to), validates it and registers it; an error
\* is logged and the walk goes on.
addSkill(loaded, mf) ==
    LET manifestPath == dscVisited + 1
        err == addSkillError(skSkills, loaded, mf)
    IN
    /\ dscResult = "walking"
    /\ dscVisited < MaxManifests
    /\ dscVisited' = dscVisited + 1
    /\ skSkills' = IF err = ""
                   THEN [skSkills EXCEPT
                           ![mf.name] = newBinding(mf, manifestPath)]
                   ELSE skSkills
    /\ last' = [op |-> "addSkill", loaded |-> loaded, manifest |-> mf,
                validate |-> IF loaded THEN Validate(mf) ELSE "",
                err |-> err]
    /\ UNCHANGED dscResult

\* The walk ends (lines 131-139): with the error of a directory that could
\* not be read, which New returns, or with nil.
loadSkillsReturn(walkErr) ==
    /\ dscResult = "walking"
    /\ dscResult' = IF walkErr THEN "failed" ELSE "subscribing"
    /\ last' = [op |-> "loadSkills", err |-> walkErr]
    /\ UNCHANGED <<skSkills, dscVisited>>

\* registerSubscriptions (lines 190-206) and the end of New (lines 82-88).
registerSubscriptions(ok) ==
    /\ dscResult = "subscribing"
    /\ dscResult' = IF ok THEN "started" ELSE "failed"
    /\ last' = [op |-> "registerSubscriptions", err |-> ~ok]
    /\ UNCHANGED <<skSkills, dscVisited>>

(***************************************************************************)
(* Runtime supervisor (internal/runtime/runtime.go)                        *)
(*                                                                         *)
(* Runtime.Start constructs the components one after the other, marks the  *)
(* runtime ready, waits for the context to end and closes the components.  *)
(* Telemetry and the optional metrics endpoint are not tracked.            *)
(***************************************************************************)
Workers == {"skills", "stt", "llm", "tts", "router"}

\* The order of the constructions in Runtime.Start (lines 58-189).
StartOrder == <<"bus", "registry", "eventstore", "skills", "stt", "llm",
                "tts", "router", "http">>

\* The order of the closes in Runtime.Start (lines 198-231).
CloseOrder == <<"http", "registry", "stt", "llm", "tts", "router", "skills",
                "eventstore", "bus">>

\* New (lines 41-46): nothing is constructed, ready is false.
InitRuntimeFields ==
    /\ rtPhase = "starting"
    /\ rtStep = 1
    /\ rtStarted = <<>>
    /\ rtClosed = <<>>
    /\ rtServices = {}
    /\ rtSvcReady = {}
    /\ rtReady = FALSE
    /\ rtBus = "none"
    /\ rtServing = FALSE

InitRuntime ==
    /\ rtCfg \in SUBSET Workers
    /\ InitRuntimeFields

InitRuntimeIdle ==
    /\ rtCfg = {}
    /\ InitRuntimeFields

\* The registry before NewRegistry: no node is known.
InitRegistryEmpty ==
    /\ regNow = 1
    /\ regStarted = FALSE
    /\ regNodes = [n \in NodeIds |-> Nil]

\* One construction of Runtime.Start (lines 58-189).  A worker service that
\* is not enabled is passed over; a construction that fails makes Start
\* return its error; NewRegistry succeeds also when its announce fails.
startComponent(ok, announced) ==
    LET c == StartOrder[rtStep] IN
    /\ rtPhase = "starting"
    /\ rtStep <= Len(StartOrder)
    /\ last' = [op |-> "Start", component |-> c]
    /\ IF c \in Workers /\ c \notin rtCfg
       THEN /\ rtStep' = rtStep + 1
            /\ UNCHANGED <<rtPhase, rtStarted, rtServices, rtSvcReady,
                           rtBus, rtServing, regNodes, regStarted>>
       ELSE IF ~ok
       THEN /\ rtPhase' = "failed"
            /\ UNCHANGED <<rtStep, rtStarted, rtServices, rtSvcReady,
                           rtBus, rtServing, regNodes, regStarted>>
       ELSE /\ rtStep' = rtStep + 1
            /\ rtStarted' = Append(rtStarted, c)
            /\ rtServices' = IF c \in Workers THEN rtServices \cup {c}
                             ELSE rtServices
            /\ rtSvcReady' = IF c \in Workers THEN rtSvcReady \cup {c}
                             ELSE rtSvcReady
            /\ rtBus' = IF c = "bus" THEN "connected" ELSE rtBus
            /\ rtServing' = IF c = "http" THEN TRUE ELSE rtServing
            /\ regNodes' = IF c = "registry" /\ announced
                           THEN updateNode(regNodes, LocalNode, LocalRole,
                                           LocalCapabilities, regNow, TRUE)
                           ELSE regNodes
            /\ regStarted' = IF c = "registry" THEN TRUE ELSE regStarted
            /\ UNCHANGED rtPhase
    /\ UNCHANGED <<rtCfg, rtClosed, rtReady, regNow>>

\* Runtime.Start, line 191: every construction is done.
markReady ==
    /\ rtPhase = "starting"
    /\ rtStep = Len(StartOrder) + 1
    /\ rtReady' = TRUE
    /\ rtPhase' = "running"
    /\ last' = [op |-> "Start", component |-> "ready"]
    /\ UNCHANGED <<rtCfg, rtStep, rtStarted, rtClosed, rtServices,
                   rtSvcReady, rtBus, rtServing, regVars>>

\* Runtime.Start, line 194: the context ends.
contextDone ==
    /\ rtPhase = "running"
    /\ rtPhase' = "stopping"
    /\ rtStep' = 1
    /\ last' = [op |-> "Start", component |-> "done"]
    /\ UNCHANGED <<rtCfg, rtStarted, rtClosed, rtServices, rtSvcReady,
                   rtReady, rtBus, rtServing, regVars>>

\* One close of Runtime.Start (lines 198-231).  A component that was not
\* constructed is passed over.  Shutdown of the HTTP server returns when the
\* handlers have ended (drained) or when the shutdown deadline has passed,
\* and then a handler may still run.
closeComponent(drained) ==
    LET c == CloseOrder[rtStep]
        constructed == \E i \in 1..Len(rtStarted) : rtStarted[i] = c
    IN
    /\ rtPhase = "stopping"
    /\ rtStep <= Len(CloseOrder)
    /\ rtStep' = rtStep + 1
    /\ rtPhase' = IF rtStep = Len(CloseOrder) THEN "stopped" ELSE rtPhase
    /\ rtClosed' = IF constructed THEN Append(rtClosed, c) ELSE rtClosed
    /\ rtBus' = IF c = "bus" THEN "closed" ELSE rtBus
    /\ rtServing' = IF c = "http" /\ drained THEN FALSE ELSE rtServing
    /\ last' = [op |-> "Close", component |-> c]
    /\ UNCHANGED <<rtCfg, rtStarted, rtServices, rtSvcReady, rtReady,
                   regVars>>

\* The connection to the bus is lost or found again (nats.Conn.Status).
busStatusChange ==
    /\ rtBus \in {"connected", "reconnecting"}
    /\ rtBus' = IF rtBus = "connected" THEN "reconnecting" ELSE "connected"
    /\ last' = [op |-> "busStatus"]
    /\ UNCHANGED <<rtCfg, rtPhase, rtStep, rtStarted, rtClosed, rtServices,
                   rtSvcReady, rtReady, rtServing, regVars>>

\* Client.Healthy (unnamed/part_018, lines 73-75).
busHealthy == rtBus = "connected"

\* Registry.Healthy (lines 233-242).
registryHealthy == regNodes[LocalNode] # Nil /\ regNodes[LocalNode].Healthy

\* Healthy of a worker service: its Start has set ready (or its
\* subscriptions) and nothing clears them.
serviceHealthy(s) == s \in rtSvcReady

\* The registry is running: constructed and not closed.
registryRunning ==
    /\ \E i \in 1..Len(rtStarted) : rtStarted[i] = "registry"
    /\ \A i \in 1..Len(rtClosed) : rtClosed[i] # "registry"

\* handleReady with the test of the bus left out.
readyAnswer_NoBus(ready, bus, registry, workers) ==
    IF ready /\ registry /\ workers THEN [status |-> 200, body |-> "ready"]
    ELSE [status |-> 503, body |-> "not ready"]

\* handleReady, lines 254-260: the answer for the values read.
readyAnswer(ready, bus, registry, workers) ==
    IF ready /\ bus /\ registry /\ workers
    THEN [status |-> 200, body |-> "ready"]
    ELSE [status |-> 503, body |-> "not ready"]

\* handleReady (lines 248-261).
handleReady ==
    LET workers == \A s \in Workers : s \notin rtServices \/ serviceHealthy(s)
        answer == readyAnswer(rtReady, busHealthy, registryHealthy, workers)
    IN
    /\ rtServing
    /\ last' = [op |-> "handleReady", status |-> answer.status,
                body |-> answer.body, bus |-> busHealthy,
                registry |-> registryHealthy,
                workers |-> \A s \in rtCfg : serviceHealthy(s),
                ready |-> rtReady]
    /\ UNCHANGED <<rtVars, regVars>>

(***************************************************************************)
(* The exec synthesizer under the TTS service                              *)
(* (internal/tts/exec.go, unnamed/part_008 lines 68-100).  Each request    *)
(* has the goroutine of handleRequest (h) and, once Synthesize has taken   *)
(* the mutex, the goroutine of the synthesis (g), which reads the lines    *)
(* the command prints and sends one chunk for each on an unbuffered        *)
(* channel.                                                                *)
(***************************************************************************)
ExecReqIds == 1..MaxExecRequests

IdleExecReq == [h |-> "idle", g |-> "none", lines |-> 0, ctx |-> "live"]

InitExecSynth ==
    /\ exMu = 0
    /\ exReqs = [r \in ExecReqIds |-> IdleExecReq]

InitExecSynthIdle ==
    /\ exMu = 0
    /\ exReqs = [r \in ExecReqIds |-> IdleExecReq]

\* tts handleRequest (part_008 lines 61-75): the goroutine of the request
\* starts, with its 45 s context, and calls Synthesize; the command will
\* print the given number of lines.
execHandleRequest(r, lines) ==
    /\ exReqs[r].h = "idle"
    /\ \A q \in 1..(r - 1) : exReqs[q].h # "idle"
    /\ exReqs' = [exReqs EXCEPT ![r] =
                     [h |-> "lock", g |-> "none", lines |-> lines,
                      ctx |-> "live"]]
    /\ last' = [op |-> "handleRequest", req |-> r]
    /\ UNCHANGED exMu

\* execSynth.Synthesize (exec.go lines 46-50, 130): the mutex is taken, the
\* goroutine of the synthesis is started and the channels are returned.
\* Lock does not look at the context; a command started with a context that
\* is already done fails to start (lines 80-83) and prints nothing.
Synthesize(r) ==
    /\ exReqs[r].h = "lock"
    /\ exMu = 0
    /\ exMu' = r
    /\ exReqs' = [exReqs EXCEPT ![r] =
          [@ EXCEPT !.h = "recv", !.g = "scan",
                    !.lines = IF exReqs[r].ctx = "done" THEN 0 ELSE @]]
    /\ last' = [op |-> "Synthesize", req |-> r]

\* The goroutine of the synthesis, lines 94-110 and 121-129 with the
\* deferred calls of lines 51-53: the next line is read and decoded, or the
\* output has ended: the command is waited for, the mutex is released and
\* the channels are closed.
execScan(r) ==
    /\ exReqs[r].g = "scan"
    /\ IF exReqs[r].lines > 0
       THEN /\ exReqs' = [exReqs EXCEPT ![r] =
                  [@ EXCEPT !.g = "send", !.lines = @ - 1]]
            /\ UNCHANGED exMu
       ELSE /\ exReqs' = [exReqs EXCEPT ![r].g = "exited"]
            /\ exMu' = 0
    /\ last' = [op |-> "scan", req |-> r]

\* The send of line 111 meets the receive of part_008 line 79: the chunk is
\* numbered and published (lines 84-86), the synthesis goes on to the next
\* line.
execReceive(r) ==
    /\ exReqs[r].h = "recv"
    /\ exReqs[r].g = "send"
    /\ exReqs' = [exReqs EXCEPT ![r].g = "scan"]
    /\ last' = [op |-> "receive", req |-> r]
    /\ UNCHANGED exMu

\* The context of the request ends: its deadline expires or the service is
\* closed.  exec.CommandContext kills the command; of the lines it had still
\* to print, those already in the pipe (kept of them) can still be read.
execContextDone(r, kept) ==
    /\ exReqs[r].h \in {"lock", "recv"}
    /\ exReqs[r].ctx = "live"
    /\ kept <= exReqs[r].lines
    /\ exReqs' = [exReqs EXCEPT ![r] =
                     [@ EXCEPT !.ctx = "done", !.lines = kept]]
    /\ last' = [op |-> "contextDone", req |-> r]
    /\ UNCHANGED exMu

\* part_008 lines 92-94: the select of handleRequest takes the case of a
\* context that is done, and the goroutine returns.
execCancelled(r) ==
    /\ exReqs[r].h = "recv"
    /\ exReqs[r].ctx = "done"
    /\ exReqs' = [exReqs EXCEPT ![r].h = "returned"]
    /\ last' = [op |-> "cancelled", req |-> r]
    /\ UNCHANGED exMu

\* part_008 lines 79-83, 87-91 and 96-98: both channels are found closed and
\* the goroutine returns.
execDrained(r) ==
    /\ exReqs[r].h = "recv"
    /\ exReqs[r].g = "exited"
    /\ exReqs' = [exReqs EXCEPT ![r].h = "returned"]
    /\ last' = [op |-> "drained", req |-> r]
    /\ UNCHANGED exMu

vars == <<last, busLog, cursor, sttVars, rVars, regVars, stVars, skVars,
          svcVars, rtVars, dscVars, exVars>>

InitBus ==
    /\ last = [op |-> "init"]
    /\ busLog = <<>>
    /\ cursor = [s \in Subscriptions |-> 0]

InitStoreIdle ==
    /\ InitStore
    /\ stCfg = [RetentionMode |-> "session", RetentionDays |-> 0,
                MaxSessions |-> 0]

STTInit ==
    /\ InitBus /\ InitSTT /\ InitRouter /\ InitRegistry /\ InitStoreIdle
    /\ InitSkillIdle /\ InitServices /\ InitRuntimeIdle
    /\ InitDiscoveryIdle /\ InitExecSynthIdle

STTOthers == <<rVars, regVars, stVars, skVars, svcVars, rtVars, dscVars, exVars>>

STTFrame ==
    \E h \in HandlerIds, sid \in SessionIds, final \in BOOLEAN :
       /\ sttFrames < MaxFrames
       /\ handleFrame(h, sid, final)
       /\ UNCHANGED STTOthers
STTCheck(h) == handleFrameCheck(h) /\ UNCHANGED STTOthers
STTSchedule(h) == handleFrameSchedule(h) /\ UNCHANGED STTOthers
STTTranscribe ==
    \E w \in sttWorkers, res \in RecognizerResults :
       transcribeReturn(w, res) /\ UNCHANGED STTOthers
STTComplete ==
    \E w \in sttWorkers : transcribeComplete(w) /\ UNCHANGED STTOthers
STTFollowup ==
    \E w \in sttWorkers : transcribeFollowup(w) /\ UNCHANGED STTOthers
STTTick == sttTick /\ UNCHANGED STTOthers

STTNext ==
    \/ STTFrame
    \/ \E h \in HandlerIds : STTCheck(h)
    \/ \E h \in HandlerIds : STTSchedule(h)
    \/ STTTranscribe
    \/ STTComplete
    \/ STTFollowup
    \/ STTTick

STTSpec == STTInit /\ [][STTNext]_vars

\* Every started step of a handler or goroutine is eventually taken, and the
\* recognizer returns (its context has a 45 s deadline).  Frames need not
\* arrive and time need not pass.
STTFairSpec ==
    /\ STTSpec
    /\ \A h \in HandlerIds : WF_vars(STTCheck(h))
    /\ \A h \in HandlerIds : WF_vars(STTSchedule(h))
    /\ WF_vars(STTTranscribe)
    /\ WF_vars(STTComplete)
    /\ WF_vars(STTFollowup)

\* C1: for every session at most one recognizer Transcribe call is executing,
\* under every interleaving of frame handlers and transcription goroutines.
C1_OneTranscribePerSession ==
    \A sid \in SessionIds : Cardinality(Transcribing(sid)) <= 1

\* A final frame met a transcription in flight: the handler found Inflight set
\* and the goroutine is still inside Transcribe.
C1_Witness ==
    \E sid \in SessionIds :
       /\ Transcribing(sid) # {}
       /\ sttSessions[sid] # Nil
       /\ sttSessions[sid].PendingFinal

RouterInit ==
    /\ InitBus /\ InitSTTIdle /\ InitRouter /\ InitRegistry /\ InitStoreIdle
    /\ InitSkillIdle /\ InitServices /\ InitRuntimeIdle
    /\ InitDiscoveryIdle /\ InitExecSynthIdle

RouterOthers == <<sttVars, regVars, stVars, skVars, svcVars, rtVars, dscVars, exVars>>

RouterTranscript ==
    \E m \in Transcripts :
       /\ rMsgs < MaxRouterMsgs
       /\ handleTranscript(m)
       /\ UNCHANGED <<cursor, RouterOthers>>
RouterLLMResponse ==
    \E m \in LLMResponses :
       /\ rMsgs < MaxRouterMsgs
       /\ handleLLMResponse(m)
       /\ UNCHANGED <<cursor, RouterOthers>>
RouterTTSDone ==
    \E m \in TTSStatuses :
       /\ rMsgs < MaxRouterMsgs
       /\ handleTTSDone(m)
       /\ UNCHANGED <<cursor, RouterOthers>>
RouterPublishTTS ==
    \E i \in 1..Len(rPendingTTS) :
       publishTTSRequest(i) /\ UNCHANGED RouterOthers
RouterRecord ==
    \E i \in 1..Len(rDonePending) :
       handleTTSDoneRecord(i) /\ UNCHANGED RouterOthers

RouterNext ==
    \/ RouterTranscript
    \/ RouterLLMResponse
    \/ RouterTTSDone
    \/ RouterPublishTTS
    \/ RouterRecord

RouterSpec == RouterInit /\ [][RouterNext]_vars

\* The goroutines and handlers the router has started run to their end; the
\* bus is not obliged to deliver anything.
RouterFairSpec ==
    /\ RouterSpec
    /\ WF_vars(RouterPublishTTS)
    /\ WF_vars(RouterRecord)

C6_NoReplaceOfLiveSession ==
    [][(/\ last'.op = "handleTranscript"
        /\ rMsgs' = rMsgs + 1)
       => /\ (last'.text = "" \/ rSessions[last'.sid] # Nil)
                => UNCHANGED <<rSessions, rSpans>>
          /\ (last'.text # "" /\ rSessions[last'.sid] = Nil)
                => /\ rSessions'[last'.sid] # Nil
                   /\ Len(rSpans') = Len(rSpans) + 1]_vars

\* C7: an nlu.response.final or a tts.done for a session identifier without a
\* live VoiceSession is dropped: no tts.request is published or about to be,
\* no latency sample is recorded, the session table is unchanged.
C7_UnknownSessionDropped ==
    [][(/\ last'.op \in {"handleLLMResponse", "handleTTSDone"}
        /\ rMsgs' = rMsgs + 1
        /\ rSessions[last'.sid] = Nil)
       => UNCHANGED <<rSessions, rPendingTTS, rDonePending, rSamples,
                      busLog>>]_vars

\* C8: every VoiceSession is eventually destroyed, also when no tts.done
\* arrives for it.
C8_SessionEventuallyDestroyed ==
    \A sid \in SessionIds : (rSessions[sid] # Nil) ~> (rSessions[sid] = Nil)

(***************************************************************************)
(* The registry on its own: announces and heartbeats of any node arrive    *)
(* with any timestamp, the health monitor ticks, time passes.              *)
(***************************************************************************)
RegistryInit ==
    /\ InitBus /\ InitSTTIdle /\ InitRouter /\ InitRegistry /\ InitStoreIdle
    /\ InitSkillIdle /\ InitServices /\ InitRuntimeIdle
    /\ InitDiscoveryIdle /\ InitExecSynthIdle

RegistryOthers == <<busVars, sttVars, rVars, stVars, skVars, svcVars, rtVars, dscVars, exVars>>

RegistryAnnounce ==
    \E n \in NodeIds, role \in Roles, caps \in CapabilityLists,
       ts \in 0..MaxRegNow :
       handleAnnounce(n, role, caps, ts) /\ UNCHANGED RegistryOthers
RegistryHeartbeat ==
    \E n \in NodeIds, ts \in 0..MaxRegNow :
       handleHeartbeat(n, ts) /\ UNCHANGED RegistryOthers
RegistryEvaluate == evaluateHealth /\ UNCHANGED RegistryOthers
RegistryTick == regTick /\ UNCHANGED RegistryOthers

RegistryNext ==
    \/ RegistryAnnounce
    \/ RegistryHeartbeat
    \/ RegistryEvaluate
    \/ RegistryTick

RegistrySpec == RegistryInit /\ [][RegistryNext]_vars

Known(n) == regNodes[n] # Nil

\* C9 as stated: at every instant a known node is reported unhealthy exactly
\* when now - last_seen exceeds the heartbeat timeout.
C9_UnhealthyIffTimedOut ==
    \A n \in NodeIds :
       Known(n) =>
          (~regNodes[n].Healthy <=> regNow - regNodes[n].LastSeen > HeartbeatTimeout)

\* C9 as amended: a node is reported unhealthy only if now - last_seen exceeds
\* the heartbeat timeout, and when the health monitor has just evaluated,
\* every node whose now - last_seen exceeds the timeout is reported unhealthy.
C9_UnhealthyOnlyIfTimedOut ==
    \A n \in NodeIds :
       Known(n) =>
          /\ ~regNodes[n].Healthy
                => regNow - regNodes[n].LastSeen > HeartbeatTimeout
          /\ (last.op = "evaluateHealth"
                /\ regNow - regNodes[n].LastSeen > HeartbeatTimeout)
                => ~regNodes[n].Healthy

\* The monitor has just marked the silent peer unhealthy; the local node, which
\* kept its heartbeat, is healthy.
C9_Witness ==
    /\ last.op = "evaluateHealth"
    /\ Known("peer") /\ ~regNodes["peer"].Healthy
    /\ regNodes[LocalNode].Healthy
    /\ regNow - regNodes[LocalNode].LastSeen <= HeartbeatTimeout

(***************************************************************************)
(* The store on its own.                                                   *)
(***************************************************************************)
StoreInit ==
    /\ InitBus /\ InitSTTIdle /\ InitRouter /\ InitRegistry /\ InitStore
    /\ InitSkillIdle /\ InitServices /\ InitRuntimeIdle
    /\ InitDiscoveryIdle /\ InitExecSynthIdle

StoreOthers == <<busVars, sttVars, rVars, regVars, skVars, svcVars, rtVars, dscVars, exVars>>

StoreAppendSession ==
    \E sid \in AuditIds, c \in Callers :
       AppendSession(sid, c.actor, c.privacy) /\ UNCHANGED StoreOthers
StoreAppendEvent ==
    \E evt \in Events : AppendEvent(evt) /\ UNCHANGED StoreOthers
StorePrune == Prune /\ UNCHANGED StoreOthers
StoreOpen == Open /\ UNCHANGED StoreOthers
Limits == {0, 1}
StoreList ==
    \E sid \in AuditIds, limit \in Limits :
       ListSessionEvents(sid, limit) /\ UNCHANGED StoreOthers
StoreTick == stTick /\ UNCHANGED StoreOthers

StoreNext ==
    \/ StoreAppendSession
    \/ StoreAppendEvent
    \/ StorePrune
    \/ StoreOpen
    \/ StoreList
    \/ StoreTick

StoreSpec == StoreInit /\ [][StoreNext]_vars

Cutoff == stClock - stCfg.RetentionDays

\* A session of the store before prune() that is inside both limits: not
\* older than the retention window, and fewer than max_sessions of the
\* sessions inside the window are as recent as it is.
WithinLimits(sessions, sid) ==
    /\ sessions[sid] # Nil
    /\ stCfg.RetentionDays > 0 => ~(sessions[sid].created_at < Cutoff)
    /\ stCfg.MaxSessions > 0 =>
          Cardinality({o \in LiveSessions(sessions) \ {sid} :
                          /\ ~(stCfg.RetentionDays > 0
                               /\ sessions[o].created_at < Cutoff)
                          /\ sessions[o].created_at >= sessions[sid].created_at})
             < stCfg.MaxSessions

\* C10: after prune() of a persistent store no session older than
\* retention_days remains, at most max_sessions sessions remain and they are
\* the most recently created ones, no event of a deleted session remains, and
\* every session inside both limits is retained with all of its events.
C10_PrunePostcondition ==
    (last.op = "Prune" /\ stCfg.RetentionMode = "persistent") =>
       /\ stCfg.RetentionDays > 0 =>
             \A sid \in LiveSessions(stSessions) :
                ~(stSessions[sid].created_at < Cutoff)
       /\ stCfg.MaxSessions > 0 =>
             /\ Cardinality(LiveSessions(stSessions)) <= stCfg.MaxSessions
             /\ \A k \in LiveSessions(stSessions),
                  d \in LiveSessions(last.sessions) \ LiveSessions(stSessions) :
                   last.sessions[k].created_at >= last.sessions[d].created_at
       /\ \A i \in 1..Len(stEvents) : stSessions[stEvents[i].session_id] # Nil
       /\ \A sid \in AuditIds :
             WithinLimits(last.sessions, sid) =>
                /\ stSessions[sid] = last.sessions[sid]
                /\ EventsOf(stEvents, sid) = EventsOf(last.events, sid)

(***************************************************************************)
(* The skill host on its own                                               *)
(***************************************************************************)
SkillInit ==
    /\ InitBus /\ InitSTTIdle /\ InitRouter /\ InitRegistry /\ InitStoreIdle
    /\ InitSkill /\ InitServices /\ InitRuntimeIdle
    /\ InitDiscoveryIdle /\ InitExecSynthIdle

SkillOthers == <<busVars, sttVars, rVars, regVars, stVars, svcVars, rtVars, dscVars, exVars>>

SkillHostPublish ==
    \E c \in HostPublishCalls : host_publish(c) /\ UNCHANGED SkillOthers

SkillNext == SkillHostPublish

SkillSpec == SkillInit /\ [][SkillNext]_vars

PipelineInit ==
    /\ InitBus /\ InitSTTIdle /\ InitRouter /\ InitRegistry /\ InitStoreIdle
    /\ InitSkillIdle /\ InitServices /\ InitRuntimeIdle
    /\ InitDiscoveryIdle /\ InitExecSynthIdle

\* The bus hands each subscription its messages in the order of publication.
Deliverable(subject) ==
    {i \in (cursor[subject] + 1)..Len(busLog) : busLog[i].subject = subject}

NextMsg(subject) ==
    CHOOSE i \in Deliverable(subject) : \A j \in Deliverable(subject) : i <= j

Delivered(subject) ==
    cursor' = [cursor EXCEPT ![subject] = NextMsg(subject)]

ServiceOthers == <<sttVars, rVars, regVars, stVars, skVars, rtVars, dscVars, exVars>>

\* A final frame arrives for a session the STT service has not seen.
PipeFrame ==
    \E h \in HandlerIds, sid \in SessionIds :
       /\ sttFrames < MaxPipelineSessions
       /\ sttSessions[sid] = Nil
       /\ ~sttFinalSeen[sid]
       /\ handleFrame(h, sid, TRUE)
       /\ UNCHANGED STTOthers
PipeTranscribe ==
    \E w \in sttWorkers :
       transcribeReturn(w, MockTranscribe(w.pcm, w.final))
       /\ UNCHANGED STTOthers
PipeTranscript ==
    /\ Deliverable(SubjectTranscriptFinal) # {}
    /\ handleTranscript(busLog[NextMsg(SubjectTranscriptFinal)])
    /\ Delivered(SubjectTranscriptFinal)
    /\ UNCHANGED RouterOthers
PipeLLMRequest ==
    /\ Deliverable(SubjectLLMRequest) # {}
    /\ LET req == busLog[NextMsg(SubjectLLMRequest)]
       IN llmHandleRequest(req, MockGenerate(req))
    /\ Delivered(SubjectLLMRequest)
    /\ UNCHANGED ServiceOthers
PipeLLMDeliver ==
    \E i \in 1..Len(llmWorkers) : llmDeliver(i) /\ UNCHANGED ServiceOthers
PipeLLMResponse ==
    /\ Deliverable(SubjectLLMResponseFinal) # {}
    /\ handleLLMResponse(busLog[NextMsg(SubjectLLMResponseFinal)])
    /\ Delivered(SubjectLLMResponseFinal)
    /\ UNCHANGED RouterOthers
PipeTTSRequest ==
    /\ Deliverable(SubjectTTSRequest) # {}
    /\ LET req == busLog[NextMsg(SubjectTTSRequest)]
       IN ttsHandleRequest(req, MockSynthesize(req))
    /\ Delivered(SubjectTTSRequest)
    /\ UNCHANGED ServiceOthers
PipeTTSDeliver ==
    \E i \in 1..Len(ttsWorkers) : ttsDeliver(i) /\ UNCHANGED ServiceOthers
PipeTTSDone ==
    /\ Deliverable(SubjectTTSDone) # {}
    /\ handleTTSDone(busLog[NextMsg(SubjectTTSDone)])
    /\ Delivered(SubjectTTSDone)
    /\ UNCHANGED RouterOthers

PipelineNext ==
    \/ PipeFrame
    \/ \E h \in HandlerIds : STTSchedule(h)
    \/ PipeTranscribe
    \/ STTComplete
    \/ PipeTranscript
    \/ PipeLLMRequest
    \/ PipeLLMDeliver
    \/ PipeLLMResponse
    \/ RouterPublishTTS
    \/ PipeTTSRequest
    \/ PipeTTSDeliver
    \/ PipeTTSDone
    \/ RouterRecord

PipelineSpec == PipelineInit /\ [][PipelineNext]_vars

\* Handlers and goroutines run to their end, the mock adapters return, and
\* the bus delivers what was published.  Frames need not arrive.
PipelineFairSpec ==
    /\ PipelineSpec
    /\ \A h \in HandlerIds : WF_vars(STTSchedule(h))
    /\ WF_vars(PipeTranscribe)
    /\ WF_vars(STTComplete)
    /\ WF_vars(PipeTranscript)
    /\ WF_vars(PipeLLMRequest)
    /\ WF_vars(PipeLLMDeliver)
    /\ WF_vars(PipeLLMResponse)
    /\ WF_vars(RouterPublishTTS)
    /\ WF_vars(PipeTTSRequest)
    /\ WF_vars(PipeTTSDeliver)
    /\ WF_vars(PipeTTSDone)
    /\ WF_vars(RouterRecord)

PipelineOrder ==
    <<SubjectTranscriptFinal, SubjectLLMRequest, SubjectLLMResponseFinal,
      SubjectTTSRequest, SubjectTTSDone>>

PipelineSubjects == {PipelineOrder[i] : i \in 1..Len(PipelineOrder)}

\* The pipeline subjects published for a session, in the order of publication.
SubjectsOf(sid) ==
    LET idx == {i \in 1..Len(busLog) :
                   /\ busLog[i].session_id = sid
                   /\ busLog[i].subject \in PipelineSubjects}
        nth(k) == CHOOSE i \in idx : Cardinality({j \in idx : j <= i}) = k
    IN [k \in 1..Cardinality(idx) |-> busLog[nth(k)].subject]

IsPrefix(a, b) == Len(a) <= Len(b) /\ a = SubSeq(b, 1, Len(a))

\* C5: with the mock adapters, a final frame for a fresh session leads to
\* stt.text.final, nlu.request, nlu.response.final, tts.request and tts.done
\* for that session, each published once and in this order, after which the
\* router holds no session for it.
C5_PipelineRunsToCompletion ==
    \A sid \in SessionIds :
       /\ [](IsPrefix(SubjectsOf(sid), PipelineOrder))
       /\ sttFinalSeen[sid]
             ~> [](/\ SubjectsOf(sid) = PipelineOrder
                   /\ rSessions[sid] = Nil
                   /\ rRemoved[sid] = 1)

\* A session went through the whole pipeline and the router let go of it.
C5_Witness ==
    \E sid \in SessionIds :
       /\ sttFinalSeen[sid]
       /\ SubjectsOf(sid) = PipelineOrder
       /\ rSessions[sid] = Nil
       /\ rRemoved[sid] = 1
       /\ rSamples[sid] = 1



C12_EventsMonotone ==
    \A i, j \in 1..Len(stEvents) :
       (i < j /\ stEvents[i].session_id = stEvents[j].session_id) =>
          /\ stEvents[i].id <= stEvents[j].id
          /\ stEvents[i].created_at <= stEvents[j].created_at

SeqToSet(seq) == {seq[i] : i \in 1..Len(seq)}

\* C13: list_session_events(session, limit) returns only events of that
\* session, in ascending created_at order, at most limit of them (100 when
\* limit <= 0), and every stored event of the session, as it was appended,
\* whenever the session holds at most limit events.
C13_ListSessionEvents ==
    (last.op = "ListSessionEvents" /\ Stored) =>
       LET result == last.result
           lim == IF last.limit <= 0 THEN 100 ELSE last.limit
           held == EventsOf(stEvents, last.sid)
       IN /\ \A i \in 1..Len(result) : result[i].session_id = last.sid
          /\ \A i, j \in 1..Len(result) :
                i < j => result[i].created_at <= result[j].created_at
          /\ Len(result) <= lim
          /\ SeqToSet(result) \subseteq SeqToSet(held)
          /\ Len(held) <= lim =>
                /\ SeqToSet(result) = SeqToSet(held)
                /\ Len(result) = Len(held)

\* The default limit was taken and the list came back in timestamp order,
\* which is not the order of appending.
C13_Witness ==
    /\ last.op = "ListSessionEvents" /\ Stored
    /\ last.limit = 0
    /\ Len(last.result) = 2
    /\ last.result[1].id > last.result[2].id
    /\ last.result[1].payload = "hello"

\* C14: in retention mode session neither opening the store nor prune()
\* removes a session or an event.
C14_SessionModeNeverPrunes ==
    (stCfg.RetentionMode = "session" /\ last.op \in {"Prune", "Open"}) =>
       /\ stSessions = last.sessions
       /\ stEvents = last.events

\* C15: every stored event refers to a stored session; append_event for a
\* session that does not exist fails and leaves the store as it was, and a
\* session deleted by prune takes its events with it.
C15_ForeignKeyIntegrity ==
    /\ [](\A i \in 1..Len(stEvents) :
            stSessions[stEvents[i].session_id] # Nil)
    /\ [][(/\ last'.op = "AppendEvent"
           /\ Stored
           /\ stSessions[last'.sid] = Nil)
          => /\ last'.err
             /\ UNCHANGED <<stSessions, stEvents, stNextId>>]_vars

\* An append to a session that is not stored has just failed, in a store
\* that lost an event when prune deleted its session.
C15_Witness ==
    /\ last.op = "AppendEvent" /\ last.err
    /\ Stored
    /\ stSessions[last.sid] = Nil
    /\ stNextId - 1 > Len(stEvents)

\* C16: ensure_session for a stored session keeps its creation timestamp and
\* its events, sets actor and privacy scope to the values given, touches no
\* other session, and changes nothing when they are the values already
\* stored; for a new identifier it adds one session created now.
C16_EnsureSessionUpsert ==
    [][(last'.op = "AppendSession" /\ Stored) =>
          LET sid == last'.sid IN
          /\ stSessions'[sid] # Nil
          /\ stSessions'[sid].actor_id = last'.actor
          /\ stSessions'[sid].privacy_scope = last'.privacy
          /\ stSessions'[sid].created_at =
                IF stSessions[sid] = Nil THEN stClock
                ELSE stSessions[sid].created_at
          /\ \A o \in AuditIds \ {sid} : stSessions'[o] = stSessions[o]
          /\ stEvents' = stEvents
          /\ (/\ stSessions[sid] # Nil
              /\ stSessions[sid].actor_id = last'.actor
              /\ stSessions[sid].privacy_scope = last'.privacy)
                => stSessions' = stSessions]_vars

\* A session created on an earlier day, holding an event, has just been given
\* another actor.
C16_Witness ==
    /\ last.op = "AppendSession" /\ Stored
    /\ stSessions[last.sid] # Nil
    /\ stSessions[last.sid].created_at < stClock
    /\ stSessions[last.sid].actor_id = "actor-2"
    /\ EventsOf(stEvents, last.sid) # <<>>
    /\ \E o \in AuditIds \ {last.sid} : stSessions[o] # Nil

\* C17: in retention mode ephemeral ensure_session, append_event and prune
\* return no error and store nothing, and list_session_events returns no
\* events.
C17_EphemeralStoresNothing ==
    stCfg.RetentionMode = "ephemeral" =>
       /\ LiveSessions(stSessions) = {}
       /\ stEvents = <<>>
       /\ last.op \in {"AppendSession", "AppendEvent", "Prune", "Open",
                       "ListSessionEvents"} => ~last.err
       /\ last.op = "ListSessionEvents" => last.result = <<>>

\* In an ephemeral store an append_event has just been accepted.
C17_Witness ==
    /\ stCfg.RetentionMode = "ephemeral"
    /\ last.op = "AppendEvent"
    /\ ~last.err
    /\ stEvents = <<>>



(***************************************************************************)
(* The skill host with its invocations: messages arrive, goroutines queue  *)
(* for the semaphore, guests run and call host_publish                     *)
(***************************************************************************)
SkillInvokeInit ==
    /\ InitBus /\ InitSTTIdle /\ InitRouter /\ InitRegistry /\ InitStoreIdle
    /\ InitServices /\ InitRuntimeIdle
    /\ InitDiscoveryIdle /\ InitExecSynthIdle
    /\ skBinding = [permissions |-> {"bus:publish", "bus:subscribe"},
                    publishSet |-> {"allowed.subject"}]
    /\ skBus = <<>>
    /\ skAudit = <<>>
    /\ skCalls = 0
    /\ InitInvoke

InvokeMessage == makeHandler /\ UNCHANGED SkillOthers
InvokeAcquire ==
    \E i \in 1..Len(skInv) : acquire(i) /\ UNCHANGED SkillOthers
InvokeNew ==
    \E i \in 1..Len(skInv), ok \in BOOLEAN :
       invokeNew(i, ok) /\ UNCHANGED SkillOthers
InvokeLoad ==
    \E i \in 1..Len(skInv), ok \in BOOLEAN :
       invokeLoad(i, ok) /\ UNCHANGED SkillOthers
\* The calls of a guest whose memory can be read.
GuestCalls ==
    {c \in HostPublishCalls :
        c.memory /\ c.subjectOk /\ c.payloadOk /\ c.payloadLen = 7}

InvokeHostPublish ==
    \E i \in 1..Len(skInv), c \in GuestCalls :
       /\ skInv[i].pc = "run"
       /\ skCalls < MaxGuestCalls
       /\ host_publish(c)
       /\ UNCHANGED SkillOthers
InvokeReturn ==
    \E i \in 1..Len(skInv), err \in EntryResults :
       invokeReturn(i, err) /\ UNCHANGED SkillOthers

SkillInvokeNext ==
    \/ InvokeMessage
    \/ InvokeAcquire
    \/ InvokeNew
    \/ InvokeLoad
    \/ InvokeHostPublish
    \/ InvokeReturn

SkillInvokeSpec == SkillInvokeInit /\ [][SkillInvokeNext]_vars



\* C18: an invocation that fails at sandbox initialisation, at module load,
\* at the entrypoint or by timeout appends a skill.invoke.error event with
\* the error to the audit session, and the host stays healthy with the skill
\* registered.
C18_FailedInvocationAudited ==
    [][(/\ last'.op \in {"invokeNew", "invokeLoad", "invokeReturn"}
        /\ skInv' # skInv
        /\ last'.err # "")
       => /\ skAudit' = Append(skAudit, [Type |-> "skill.invoke.error",
                                         invocation_id |-> last'.id,
                                         error |-> last'.err])
          /\ skHealthy'
          /\ skBinding' = skBinding]_vars

\* C19: host_publish returns 0 exactly when the publish went out on the bus,
\* and then one skill.publish event is appended; when it returns 1 (not
\* allowed) or 2 (unreadable memory, transport failure) nothing is published
\* and no skill.publish event is appended.
C19_PublishCodes ==
    [][(skCalls' = skCalls + 1 /\ last'.op = "host_publish") =>
          LET c == last'.call
              code == last'.code
              allowed == /\ "bus:publish" \in skBinding.permissions
                         /\ c.subject \in skBinding.publishSet
              readable == /\ c.memory /\ c.subjectOk
                          /\ (c.payloadLen = 0 \/ c.payloadOk)
          IN /\ code \in {0, 1, 2}
             /\ code = 0 <=> (readable /\ allowed /\ c.busOk)
             /\ code = 0 =>
                   /\ skBus' = Append(skBus, [subject |-> c.subject,
                                              payload_bytes |-> c.payloadLen])
                   /\ skAudit' = Append(skAudit,
                                        [Type |-> "skill.publish",
                                         subject |-> c.subject,
                                         payload_bytes |-> c.payloadLen])
             /\ code # 0 => (skBus' = skBus /\ skAudit' = skAudit)
             /\ code = 1 => ~allowed
             /\ code = 2 => (~readable \/ ~c.busOk)]_vars

\* After a publish that went out, an allowed publish has just failed in
\* transport with code 2.
C19_Witness ==
    /\ last.op = "host_publish"
    /\ last.code = PublishErrRuntime
    /\ last.call.memory /\ last.call.subjectOk /\ ~last.call.busOk
    /\ AllowPublish(skBinding, last.call.subject)
    /\ Len(skBus) = 1
    /\ Len(skAudit) = 1
    /\ skAudit[1].Type = "skill.publish"

\* C20: the number of invocations holding the sandbox is at most
\* max_concurrency, taken as 1 when configured <= 0.
C20_ConcurrencyBounded ==
    Cardinality(Holders(skInv)) <= (IF skCfg <= 0 THEN 1 ELSE skCfg)

\* Two guests are running under a concurrency of 2 and a third invocation
\* waits for the semaphore.
C20_Witness ==
    /\ skCfg = 2
    /\ Cardinality({i \in 1..Len(skInv) : skInv[i].pc = "run"}) = 2
    /\ \E i \in 1..Len(skInv) : skInv[i].pc = "queued"

(***************************************************************************)
(* The supervisor on its own: Runtime.Start runs for any set of enabled    *)
(* worker services, any construction may fail, the bus connection comes    *)
(* and goes, the registry's heartbeat and health monitor run while the     *)
(* registry is open, and /readyz is requested whenever the HTTP server     *)
(* serves.                                                                 *)
(***************************************************************************)
SupervisorInit ==
    /\ InitBus /\ InitSTTIdle /\ InitRouter /\ InitRegistryEmpty
    /\ InitStoreIdle /\ InitSkillIdle /\ InitServices /\ InitRuntime
    /\ InitDiscoveryIdle /\ InitExecSynthIdle

SupervisorOthers ==
    <<busVars, sttVars, rVars, stVars, skVars, svcVars, dscVars, exVars>>

SupervisorStart ==
    \E ok \in BOOLEAN, announced \in BOOLEAN :
       startComponent(ok, announced) /\ UNCHANGED SupervisorOthers
SupervisorReady == markReady /\ UNCHANGED SupervisorOthers
SupervisorDone == contextDone /\ UNCHANGED SupervisorOthers
SupervisorClose ==
    \E drained \in BOOLEAN :
       closeComponent(drained) /\ UNCHANGED SupervisorOthers
SupervisorBusStatus == busStatusChange /\ UNCHANGED SupervisorOthers
SupervisorHandleReady == handleReady /\ UNCHANGED SupervisorOthers
\* runHeartbeat: the local heartbeat comes back over the bus.
SupervisorHeartbeat ==
    /\ registryRunning /\ busHealthy
    /\ handleHeartbeat(LocalNode, regNow)
    /\ UNCHANGED <<rtVars, SupervisorOthers>>
SupervisorEvaluate ==
    /\ registryRunning
    /\ evaluateHealth
    /\ UNCHANGED <<rtVars, SupervisorOthers>>
SupervisorTick ==
    /\ rtStarted # <<>>
    /\ regTick
    /\ UNCHANGED <<rtVars, SupervisorOthers>>

SupervisorNext ==
    \/ SupervisorStart
    \/ SupervisorReady
    \/ SupervisorDone
    \/ SupervisorClose
    \/ SupervisorBusStatus
    \/ SupervisorHandleReady
    \/ SupervisorHeartbeat
    \/ SupervisorEvaluate
    \/ SupervisorTick

SupervisorSpec == SupervisorInit /\ [][SupervisorNext]_vars

\* C21 as stated: /readyz answers 200 "ready" exactly when the bus is
\* connected, the registry reports the local node healthy and every enabled
\* worker service reports healthy, and 503 "not ready" otherwise.
C21_ReadyIffSubsystemsHealthy ==
    last.op = "handleReady" =>
       IF last.bus /\ last.registry /\ last.workers
       THEN last.status = 200 /\ last.body = "ready"
       ELSE last.status = 503 /\ last.body = "not ready"

\* C21 amended: /readyz answers 200 "ready" exactly when Start has finished
\* its constructions (Runtime.ready is set), the bus is connected, the
\* registry reports the local node healthy and every enabled worker service
\* reports healthy, and 503 "not ready" otherwise.
C21_ReadyIffStartedAndHealthy ==
    last.op = "handleReady" =>
       IF last.ready /\ last.bus /\ last.registry /\ last.workers
       THEN last.status = 200 /\ last.body = "ready"
       ELSE last.status = 503 /\ last.body = "not ready"

\* /readyz has answered 200 with worker services enabled.
C21_Witness ==
    /\ last.op = "handleReady"
    /\ last.status = 200
    /\ rtCfg # {}

Position(seq, c) == CHOOSE i \in 1..Len(seq) : seq[i] = c

\* C22: the components are constructed in the order bus, registry, event
\* store, skill host, STT, LLM, TTS, router, HTTP surface, and no component
\* is closed before a component that was constructed after it.
C22_ShutdownReversesConstruction ==
    /\ \A i, j \in 1..Len(rtStarted) :
          i < j => Position(StartOrder, rtStarted[i])
                      < Position(StartOrder, rtStarted[j])
    /\ \A i, j \in 1..Len(rtClosed) :
          i < j => Position(rtStarted, rtClosed[i])
                      > Position(rtStarted, rtClosed[j])

(***************************************************************************)
(* The TTS service on its own: requests arrive for distinct (session,      *)
(* target) pairs and are served concurrently; the synthesizer of a request *)
(* delivers any stream of chunks, with any final flags (the exec           *)
(* synthesizer copies the flag from its command's output); a request may   *)
(* be cancelled at any time.  Publishing on the bus succeeds.              *)
(***************************************************************************)
TTSInit ==
    /\ InitBus /\ InitSTTIdle /\ InitRouter /\ InitRegistry /\ InitStoreIdle
    /\ InitSkillIdle /\ InitServices /\ InitRuntimeIdle
    /\ InitDiscoveryIdle /\ InitExecSynthIdle

TTSTargets == {Target, "kitchen"}

\* The chunks and fragments that the goroutines of a service still have to
\* receive.
RECURSIVE Pending(_)
Pending(workers) ==
    IF workers = <<>> THEN 0
    ELSE Len(Head(workers).chunks) + Pending(Tail(workers))

\* The streams a synthesizer may deliver; the synthesizers deliver at most
\* MaxChunks chunks between them.
SynthStreams(req) ==
    UNION {[1..n -> {[session_id |-> req.session_id, pcm |-> <<>>,
                      final |-> f] : f \in BOOLEAN}] : n \in 0..MaxChunks}

TTSRequest ==
    \E sid \in SessionIds, target \in TTSTargets :
       LET req == [subject |-> SubjectTTSRequest, session_id |-> sid,
                   text |-> "hello", voice |-> DefaultVoice,
                   target |-> target]
       IN /\ Cardinality(ttsSeen) < MaxTTSRequests
          /\ <<sid, target>> \notin ttsSeen
          /\ \E chunks \in SynthStreams(req) :
                /\ Len(chunks) + Pending(ttsWorkers)
                      + Cardinality({i \in 1..Len(busLog) :
                           busLog[i].subject = SubjectTTSAudio}) <= MaxChunks
                /\ ttsHandleRequest(req, chunks)
          /\ UNCHANGED <<cursor, ServiceOthers>>
TTSDeliver ==
    \E i \in 1..Len(ttsWorkers) : ttsDeliver(i) /\ UNCHANGED ServiceOthers
TTSReturn ==
    \E i \in 1..Len(ttsWorkers), cancelled \in BOOLEAN :
       ttsReturn(i, cancelled) /\ UNCHANGED ServiceOthers

TTSNext ==
    \/ TTSRequest
    \/ TTSDeliver
    \/ TTSReturn

TTSSpec == TTSInit /\ [][TTSNext]_vars

\* The positions in the bus log of the messages of one request on a subject.
TTSMessages(key, subject) ==
    {i \in 1..Len(busLog) : /\ busLog[i].subject = subject
                            /\ busLog[i].session_id = key[1]
                            /\ busLog[i].target = key[2]}

LLMInit ==
    /\ InitBus /\ InitSTTIdle /\ InitRouter /\ InitRegistry /\ InitStoreIdle
    /\ InitSkillIdle /\ InitServices /\ InitRuntimeIdle
    /\ InitDiscoveryIdle /\ InitExecSynthIdle

Contents == {"", "hi"}

\* What the command of the exec generator may print, decoded.
ExecResponses == {[content |-> c] : c \in Contents}

\* What the streaming backend may send, decoded line by line: up to room
\* lines.
OllamaStreams(room) ==
    UNION {[1..n -> {[response |-> c, done |-> d] :
                        c \in Contents, d \in BOOLEAN}] : n \in 0..room}

\* The fragments delivered so far, over all requests.
RECURSIVE SumDelivered(_, _)
SumDelivered(reqs, sids) ==
    IF sids = {} THEN 0
    ELSE LET sid == CHOOSE x \in sids : TRUE IN
         (IF reqs[sid] = Nil THEN 0 ELSE Len(reqs[sid].delivered))
            + SumDelivered(reqs, sids \ {sid})

\* The fragments a generator may deliver for a request when the generators
\* have room fragments left of the MaxFragments they deliver between them.
Generations(req, room) ==
    {chunks \in {MockGenerate(req)}
                  \cup {ExecGenerate(req, resp) : resp \in ExecResponses} :
        Len(chunks) <= room}
    \cup {OllamaGenerate(req, lines) : lines \in OllamaStreams(room)}

LLMRequest ==
    \E sid \in SessionIds :
       LET req == [subject |-> SubjectLLMRequest, session_id |-> sid,
                   prompt |-> "hello", tier |-> DefaultTier]
       IN /\ Cardinality({x \in SessionIds : llmReqs[x] # Nil})
                < MaxLLMRequests
          /\ llmReqs[sid] = Nil
          /\ MaxFragments >= Pending(llmWorkers)
                                 + SumDelivered(llmReqs, SessionIds)
          /\ \E chunks \in Generations(req,
                    MaxFragments - Pending(llmWorkers)
                                 - SumDelivered(llmReqs, SessionIds)) :
                llmHandleRequest(req, chunks)
          /\ UNCHANGED <<cursor, ServiceOthers>>
LLMDeliver ==
    \E i \in 1..Len(llmWorkers) : llmDeliver(i) /\ UNCHANGED ServiceOthers
LLMReturn ==
    \E i \in 1..Len(llmWorkers), err \in BOOLEAN :
       llmReturn(i, err) /\ UNCHANGED ServiceOthers

LLMNext ==
    \/ LLMRequest
    \/ LLMDeliver
    \/ LLMReturn

LLMSpec == LLMInit /\ [][LLMNext]_vars

\* The responses published for a session, in the order of publication.
LLMPublished(sid) ==
    SelectSeq(busLog, LAMBDA m :
       /\ m.session_id = sid
       /\ m.subject \in {SubjectLLMResponsePartial, SubjectLLMResponseFinal})

NonEmpty(fragments) == SelectSeq(fragments, LAMBDA f : f.content # "")

C26_OneFinalPerSuccess ==
    \A sid \in SessionIds :
       (llmReqs[sid] # Nil /\ llmReqs[sid].result = "ok") =>
          Cardinality({i \in 1..Len(busLog) :
                          /\ busLog[i].subject = SubjectLLMResponseFinal
                          /\ busLog[i].session_id = sid}) = 1

(***************************************************************************)
(* Discovery on its own: the walk visits up to MaxManifests files named    *)
(* skill.yaml; each decodes to any manifest or fails to load.              *)
(***************************************************************************)
DiscoveryInit ==
    /\ InitBus /\ InitSTTIdle /\ InitRouter /\ InitRegistry /\ InitStoreIdle
    /\ InitSkillIdle /\ InitServices /\ InitRuntimeIdle /\ InitDiscovery
    /\ InitExecSynthIdle

DiscoveryOthers ==
    <<busVars, sttVars, rVars, regVars, stVars, skVars, svcVars, rtVars,
      exVars>>

DiscoveryAddSkill ==
    \E loaded \in BOOLEAN, mf \in Manifests :
       addSkill(loaded, mf) /\ UNCHANGED DiscoveryOthers
DiscoveryReturn ==
    \E walkErr \in BOOLEAN :
       loadSkillsReturn(walkErr) /\ UNCHANGED DiscoveryOthers
DiscoverySubscribe ==
    \E ok \in BOOLEAN : registerSubscriptions(ok) /\ UNCHANGED DiscoveryOthers

DiscoveryNext ==
    \/ DiscoveryAddSkill
    \/ DiscoveryReturn
    \/ DiscoverySubscribe

DiscoverySpec == DiscoveryInit /\ [][DiscoveryNext]_vars

\* The conditions under which the validator is said to reject a manifest.
Rejectable(m) ==
    \/ m.name = "" \/ m.version = ""
    \/ m.mode = "" \/ m.mode # "wasm"
    \/ m.module = "" \/ m.entrypoint = ""
    \/ (m.publish = <<>> /\ m.subscribe = <<>>)
    \/ m.permissions = <<>>

C28_DiscoveryRejectsAndContinues ==
    /\ [](\A n \in SkillNames : skSkills[n] # Nil => skSkills[n].name = n)
    /\ [][/\ dscVisited' # dscVisited =>
             LET mf == last'.manifest
                 rejected == \/ ~last'.loaded
                             \/ Rejectable(mf)
                             \/ skSkills[mf.name] # Nil
             IN /\ rejected => skSkills' = skSkills
                /\ ~rejected =>
                      /\ skSkills'[mf.name].manifestPath = dscVisited'
                      /\ \A n \in SkillNames \ {mf.name} :
                            skSkills'[n] = skSkills[n]
                /\ dscResult' = "walking"
          /\ (dscResult = "walking" /\ dscResult' = "failed")
                => last'.err]_vars

\* A manifest was rejected for its name, registered by an earlier file, and
\* the earlier binding is still there.
C28_Witness ==
    /\ last.op = "addSkill"
    /\ last.err = "duplicate skill name"
    /\ skSkills[last.manifest.name].manifestPath < dscVisited

(***************************************************************************)
(* The registry from its construction: NewRegistry announces the local     *)
(* node, then announces and heartbeats of any node arrive, the health      *)
(* monitor runs and time passes.                                           *)
(***************************************************************************)
AnnounceInit ==
    /\ InitBus /\ InitSTTIdle /\ InitRouter /\ InitRegistryEmpty
    /\ InitStoreIdle /\ InitSkillIdle /\ InitServices /\ InitRuntimeIdle
    /\ InitDiscoveryIdle /\ InitExecSynthIdle

AnnounceOthers ==
    <<sttVars, rVars, stVars, skVars, svcVars, rtVars, dscVars, exVars>>

AnnounceStart ==
    \E ok \in BOOLEAN : NewRegistry(ok) /\ UNCHANGED AnnounceOthers
AnnounceReceive == regStarted /\ RegistryAnnounce
AnnounceHeartbeat == regStarted /\ RegistryHeartbeat
AnnounceEvaluate == regStarted /\ RegistryEvaluate
AnnounceTick == regStarted /\ RegistryTick

AnnounceNext ==
    \/ AnnounceStart
    \/ AnnounceReceive
    \/ AnnounceHeartbeat
    \/ AnnounceEvaluate
    \/ AnnounceTick

AnnounceSpec == AnnounceInit /\ [][AnnounceNext]_vars

\* The announce of the local node as it stands on the bus.
LocalAnnounce(timestamp) ==
    [subject |-> SubjectAnnounce, node_id |-> LocalNode, role |-> LocalRole,
     capabilities |-> LocalCapabilities, timestamp |-> timestamp]

\* C29 as stated: the registry publishes the local node's announce on
\* startup and on every receipt of an announce, each time setting the local
\* node healthy in its map (a startup announce that the bus refuses aside).
C29_AnnounceOnStartupAndReceipt ==
    [][((last'.op = "announce" /\ ~last'.err)
           \/ last'.op = "handleAnnounce") =>
          /\ busLog' = Append(busLog, LocalAnnounce(regNow))
          /\ regNodes'[LocalNode] # Nil
          /\ regNodes'[LocalNode].Healthy]_vars

\* What the registry does: it publishes the local node's announce once, on
\* startup, and then records the local node as healthy with its role and
\* capabilities; on receipt of an announce it publishes nothing and records
\* the announcing node as healthy.
AnnounceOnStartupOnly ==
    /\ [](Cardinality({i \in 1..Len(busLog) :
                          busLog[i].subject = SubjectAnnounce}) <= 1)
    /\ [][/\ (last'.op = "announce" /\ ~last'.err) =>
                /\ busLog' = Append(busLog, LocalAnnounce(regNow))
                /\ regNodes'[LocalNode] # Nil
                /\ regNodes'[LocalNode].Healthy
                /\ regNodes'[LocalNode].Role = LocalRole
                /\ regNodes'[LocalNode].Capabilities = LocalCapabilities
          /\ (last'.op = "handleAnnounce") =>
                /\ busLog' = busLog
                /\ regNodes'[last'.node].Healthy]_vars

(***************************************************************************)
(* More on the STT service                                                 *)
(***************************************************************************)
\* Frame k of a session waits behind a transcription in flight: PendingFinal
\* is set, and no transcription of the session has frame k in its PCM.
DeferredFinal(sid, k) ==
    /\ sttSessions[sid] # Nil
    /\ sttSessions[sid].Inflight
    /\ sttSessions[sid].PendingFinal
    /\ k \in Range(sttSessions[sid].Buffer)
    /\ \A w \in sttWorkers : w.sid = sid => k \notin Range(w.pcm)

\* C30: when a final frame has set pending-final behind a transcription in
\* flight, partial or final, a final transcription of the session is run
\* afterwards, over the audio received up to that frame.
C30_FollowupAfterInflight ==
    \A sid \in SessionIds, k \in 1..MaxFrames :
       DeferredFinal(sid, k)
          ~> (\E w \in sttWorkers :
                 w.sid = sid /\ w.final /\ k \in Range(w.pcm))

\* The same for a partial transcription in flight alone.
FollowupAfterPartial ==
    \A sid \in SessionIds, k \in 1..MaxFrames :
       (DeferredFinal(sid, k)
           /\ \E w \in sttWorkers : w.sid = sid /\ ~w.final)
          ~> (\E w \in sttWorkers :
                 w.sid = sid /\ w.final /\ k \in Range(w.pcm))

\* A goroutine for a partial transcription is started by the step.
PartialStarted(sid) ==
    \E w \in sttWorkers' \ sttWorkers :
       w.sid = sid /\ ~w.final /\ w.pc = "transcribe"

\* C31: a partial transcription is started only by the handler of a frame
\* that is not final, with no transcription in flight for the session, and a
\* handler decides to schedule a partial only when publish_interim is true,
\* no transcription is in flight, and either no partial was scheduled before
\* for the session or at least partial_every_ms has elapsed since the last
\* partial.
C31_PartialOnlyWhenDue ==
    [][/\ \A sid \in SessionIds :
            PartialStarted(sid) =>
               /\ \E h \in HandlerIds :
                     /\ sttHandlers[h] =
                           [pc |-> "schedule", sid |-> sid, final |-> FALSE]
                     /\ sttHandlers'[h] = IdleHandler
               /\ sttSessions[sid] # Nil
               /\ ~sttSessions[sid].Inflight
               /\ \A w \in sttWorkers :
                     w.sid = sid => w.pc \notin {"transcribe", "complete"}
       /\ \A h \in HandlerIds :
            (/\ sttHandlers'[h].pc = "schedule"
             /\ ~sttHandlers'[h].final
             /\ sttHandlers[h] # sttHandlers'[h])
            => LET state == sttSessions[sttHandlers'[h].sid] IN
               /\ sttHandlers[h] = [sttHandlers'[h] EXCEPT !.pc = "check"]
               /\ sttCfg.PublishInterim
               /\ state # Nil
               /\ ~state.Inflight
               /\ \/ state.LastPartial = 0
                  \/ sttNow - state.LastPartial >= sttCfg.PartialEveryMS
      ]_vars

\* A second partial transcription of a session runs: the first one was
\* published and the interval has elapsed since.
C31_Witness ==
    \E w \in sttWorkers :
       /\ ~w.final
       /\ w.pc = "transcribe"
       /\ Len(w.pcm) >= 2
       /\ \E i \in 1..Len(busLog) :
             /\ busLog[i].subject = SubjectTranscriptPartial
             /\ busLog[i].session_id = w.sid

\* The goroutine of a transcription of the session runs its completion
\* section in the step.
Completes(sid, final) ==
    \E w \in sttWorkers \ sttWorkers' :
       w.sid = sid /\ w.final = final /\ w.pc = "complete"

\* C32: the buffer of a session is removed by a step exactly when the step
\* is the completion of a final transcription of the session, whether the
\* recognizer failed or not; the completion of a partial transcription
\* leaves the session and its buffer in place.
C32_RemovedExactlyOnFinalCompletion ==
    [][\A sid \in SessionIds :
          /\ (sttSessions[sid] # Nil /\ sttSessions'[sid] = Nil)
                <=> Completes(sid, TRUE)
          /\ Completes(sid, FALSE) =>
                /\ sttSessions[sid] # Nil
                /\ sttSessions'[sid] # Nil
                /\ sttSessions'[sid].Buffer = sttSessions[sid].Buffer
      ]_vars

\* The session is gone after a final transcription that published nothing
\* (the recognizer failed or returned no text), and a partial transcription
\* had completed before it and left the session in place.
C32_Witness ==
    \E sid \in SessionIds :
       /\ sttSessions[sid] = Nil
       /\ sttFinalDone[sid]
       /\ ~sttFinalText[sid]
       /\ \A w \in sttWorkers : w.sid # sid
       /\ \E i \in 1..Len(busLog) :
             /\ busLog[i].subject = SubjectTranscriptPartial
             /\ busLog[i].session_id = sid

\* A partial transcription of the session has failed in the recognizer and
\* its goroutine is at the given point.
FailedPartial(sid, pc) ==
    \E w \in sttWorkers : w.sid = sid /\ ~w.final /\ w.err /\ w.pc = pc

\* C33: when the recognizer fails a partial transcription while PendingFinal
\* is set, the failed call publishes nothing, the completion clears Inflight
\* and goes on to the follow-up, and a final transcription of the session is
\* started afterwards.
C33_FailedPartialStillFollowsUp ==
    /\ [][\A sid \in SessionIds :
             /\ (~FailedPartial(sid, "complete")
                    /\ FailedPartial(sid, "complete")')
                   => busLog' = busLog
             /\ (/\ FailedPartial(sid, "complete")
                 /\ ~FailedPartial(sid, "complete")'
                 /\ sttSessions[sid] # Nil
                 /\ sttSessions[sid].PendingFinal)
                   => /\ sttSessions'[sid] # Nil
                      /\ ~sttSessions'[sid].Inflight
                      /\ FailedPartial(sid, "followup")'
         ]_vars
    /\ \A sid \in SessionIds :
          (/\ FailedPartial(sid, "complete")
           /\ sttSessions[sid] # Nil
           /\ sttSessions[sid].PendingFinal)
             ~> (\E w \in sttWorkers :
                    w.sid = sid /\ w.final /\ w.pc = "transcribe")

\* The goroutine of a failed partial transcription has cleared Inflight and
\* is about to start the follow-up; nothing was published for the session.
C33_Witness ==
    \E sid \in SessionIds :
       /\ FailedPartial(sid, "followup")
       /\ sttSessions[sid] # Nil
       /\ ~sttSessions[sid].Inflight
       /\ \A i \in 1..Len(busLog) : busLog[i].session_id # sid

\* The step is the receipt of an announce or of a heartbeat.
Received == last'.op \in {"handleAnnounce", "handleHeartbeat"}

\* What a receipt does apart from last_seen: the named node exists and is
\* healthy, a heartbeat keeps its role and capabilities (those of a new node
\* are empty), and no other node is modified.
ReceiptEffect ==
    LET n == last'.node IN
    /\ regNodes'[n] # Nil
    /\ regNodes'[n].Healthy
    /\ last'.op = "handleHeartbeat" =>
          /\ regNodes'[n].Role =
                IF regNodes[n] = Nil THEN "" ELSE regNodes[n].Role
          /\ regNodes'[n].Capabilities =
                IF regNodes[n] = Nil THEN <<>> ELSE regNodes[n].Capabilities
    /\ \A m \in NodeIds \ {n} : regNodes'[m] = regNodes[m]

NeverRemoved == \A n \in NodeIds : regNodes[n] # Nil => regNodes'[n] # Nil

\* C34 as stated: each received announce or heartbeat sets the named node's
\* last_seen to the timestamp of the message and healthy to true, creating
\* the node if unknown; a heartbeat leaves role and capabilities unchanged,
\* no other node is modified, and no node is ever removed.
C34_ReceiptSetsMessageTimestamp ==
    [][/\ Received =>
             /\ ReceiptEffect
             /\ regNodes'[last'.node].LastSeen = last'.timestamp
       /\ NeverRemoved
      ]_vars

\* C34 as amended: the same, with last_seen set to the timestamp of the
\* message, or to the current time when the message carries none (the zero
\* time).
C34_ReceiptRefreshesNode ==
    [][/\ Received =>
             /\ ReceiptEffect
             /\ regNodes'[last'.node].LastSeen =
                   IF last'.timestamp = 0 THEN regNow ELSE last'.timestamp
       /\ NeverRemoved
      ]_vars

\* A heartbeat with a timestamp was received for the peer, whose role an
\* earlier announce had set.
C34_Witness ==
    /\ last.op = "handleHeartbeat"
    /\ last.node = "peer"
    /\ last.timestamp # 0
    /\ regNodes["peer"] # Nil
    /\ regNodes["peer"].Role = "worker"
    /\ regNodes["peer"].LastSeen = last.timestamp

\* C40: the last_seen of a node never moves backwards: a received announce
\* or heartbeat that carries a timestamp older than the stored last_seen does
\* not decrease it.
C40_LastSeenMonotone ==
    [][\A n \in NodeIds :
          (/\ regNodes[n] # Nil
           /\ Received
           /\ last'.node = n
           /\ last'.timestamp # 0
           /\ last'.timestamp < regNodes[n].LastSeen)
             => /\ regNodes'[n] # Nil
                /\ regNodes'[n].LastSeen >= regNodes[n].LastSeen
      ]_vars

\* The audit events of an invocation that tell its course, in order.
TrailOf(i) ==
    SelectSeq(skAudit,
              LAMBDA e : /\ e.Type \in {"skill.invoke.start",
                                        "skill.invoke.complete",
                                        "skill.invoke.error"}
                         /\ e.invocation_id = i)

\* C35: the audit trail of every dispatched invocation begins with
\* skill.invoke.start, recorded before the sandbox is instantiated (so it is
\* there once the sandbox exists), and once the invocation is over it ends
\* with exactly one skill.invoke.complete or skill.invoke.error.
C35_AuditTrailBracketsInvocation ==
    \A i \in 1..Len(skInv) :
       /\ skInv[i].pc \in {"load", "run", "done"} =>
             /\ TrailOf(i) # <<>>
             /\ TrailOf(i)[1].Type = "skill.invoke.start"
       /\ skInv[i].pc = "done" =>
             /\ Len(TrailOf(i)) = 2
             /\ TrailOf(i)[2].Type \in {"skill.invoke.complete",
                                        "skill.invoke.error"}

(***************************************************************************)
(* The LLM service with a bus that may refuse a publish.                   *)
(***************************************************************************)
LLMPublishFails ==
    \E i \in 1..Len(llmWorkers) : llmPublishFails(i) /\ UNCHANGED ServiceOthers

LLMBusNext ==
    \/ LLMRequest
    \/ LLMDeliver
    \/ LLMReturn
    \/ LLMPublishFails

LLMBusSpec == LLMInit /\ [][LLMBusNext]_vars

\* C36: once the generator has failed or the publication of a fragment has
\* failed, nothing further is published for the request, on
\* nlu.response.partial or on nlu.response.final.
C36_NothingPublishedAfterFailure ==
    [][\A sid \in SessionIds :
          (llmReqs[sid] # Nil /\ llmReqs[sid].result = "failed")
             => LLMPublished(sid)' = LLMPublished(sid)
      ]_vars

\* The publication of a fragment has just failed, after an earlier fragment
\* of the request had been published.
C36_Witness ==
    /\ last.op = "llmPublishFails"
    /\ llmReqs[last.sid].result = "failed"
    /\ LLMPublished(last.sid) # <<>>
    /\ \A i \in 1..Len(llmWorkers) :
          llmWorkers[i].req.session_id # last.sid

(***************************************************************************)
(* TTS requests served by the exec synthesizer.                            *)
(***************************************************************************)
ExecSynthInit ==
    /\ InitBus /\ InitSTTIdle /\ InitRouter /\ InitRegistry /\ InitStoreIdle
    /\ InitSkillIdle /\ InitServices /\ InitRuntimeIdle
    /\ InitDiscoveryIdle /\ InitExecSynth

ExecSynthOthers ==
    <<busVars, sttVars, rVars, regVars, stVars, skVars, svcVars, rtVars,
      dscVars>>

ExecRequest ==
    \E r \in ExecReqIds, lines \in 0..MaxLines :
       execHandleRequest(r, lines) /\ UNCHANGED ExecSynthOthers
ExecSynthesize(r) == Synthesize(r) /\ UNCHANGED ExecSynthOthers
ExecScan(r) == execScan(r) /\ UNCHANGED ExecSynthOthers
ExecReceive(r) == execReceive(r) /\ UNCHANGED ExecSynthOthers
ExecContextDone(r) ==
    \E kept \in 0..MaxLines :
       execContextDone(r, kept) /\ UNCHANGED ExecSynthOthers
ExecCancelled(r) == execCancelled(r) /\ UNCHANGED ExecSynthOthers
ExecDrained(r) == execDrained(r) /\ UNCHANGED ExecSynthOthers

ExecSynthNext ==
    \/ ExecRequest
    \/ \E r \in ExecReqIds : ExecSynthesize(r)
    \/ \E r \in ExecReqIds : ExecScan(r)
    \/ \E r \in ExecReqIds : ExecReceive(r)
    \/ \E r \in ExecReqIds : ExecContextDone(r)
    \/ \E r \in ExecReqIds : ExecCancelled(r)
    \/ \E r \in ExecReqIds : ExecDrained(r)

ExecSynthSpec == ExecSynthInit /\ [][ExecSynthNext]_vars

\* Goroutines that can run do run: Synthesize returns once the mutex is
\* free, the synthesis reads on, and the select of handleRequest takes one of
\* its ready cases (which one is not determined); the 45 s deadline of every
\* request expires unless the request is over before.
ExecSynthFairSpec ==
    /\ ExecSynthSpec
    /\ \A r \in ExecReqIds :
          /\ WF_vars(ExecSynthesize(r))
          /\ WF_vars(ExecScan(r))
          /\ WF_vars(ExecReceive(r) \/ ExecCancelled(r) \/ ExecDrained(r))
          /\ WF_vars(ExecContextDone(r))

\* C37: when the context of a request ends while its synthesis still holds
\* the synthesizer, the synthesis releases it, and every request that waits
\* for the synthesizer's mutex gets it.
C37_CancelledSynthesisReleasesLock ==
    \A r \in ExecReqIds :
       /\ (exReqs[r].ctx = "done" /\ exMu = r) ~> (exMu # r)
       /\ (exReqs[r].h = "lock") ~> (exReqs[r].h # "lock")

\* The session of sid awaits the completion: it exists and no
\* nlu.response.final has been processed for it.
AwaitingCompletion(sid) ==
    /\ rSessions[sid] # Nil
    /\ \A k \in 1..Len(rSpans[rSessions[sid].Span].events) :
          rSpans[rSessions[sid].Span].events[k] # "llm.response.final"

\* C38: a tts.done with completed=true that is handled while the session
\* still awaits its nlu.response.final does not destroy the session and
\* leads to no latency sample.
C38_DoneBeforeCompletionIgnored ==
    [][\A sid \in SessionIds :
          (/\ AwaitingCompletion(sid)
           /\ rMsgs' # rMsgs
           /\ last'.op = "handleTTSDone"
           /\ last'.sid = sid
           /\ last'.completed)
             => /\ rSessions'[sid] = rSessions[sid]
                /\ rDonePending' = rDonePending
                /\ rRemoved' = rRemoved
      ]_vars

(***************************************************************************)
(* The STT service with one session identifier that goes on being used     *)
(* after a final frame: interim transcripts are published, and up to       *)
(* MaxReuseFrames frames arrive for the identifier.                        *)
(***************************************************************************)
STTReuseInit ==
    /\ STTInit
    /\ sttCfg = [PublishInterim |-> TRUE, PartialEveryMS |-> 0]

STTReuseFrame ==
    \E h \in HandlerIds, final \in BOOLEAN :
       /\ sttFrames < MaxReuseFrames
       /\ handleFrame(h, 1, final)
       /\ UNCHANGED STTOthers

STTReuseNext ==
    \/ STTReuseFrame
    \/ \E h \in HandlerIds : STTCheck(h)
    \/ \E h \in HandlerIds : STTSchedule(h)
    \/ STTTranscribe
    \/ STTComplete
    \/ STTFollowup

STTReuseSpec == STTReuseInit /\ [][STTReuseNext]_vars

\* The PCM of the first n frames received for the session since its buffer
\* was created, concatenated in arrival order.
ArrivedPCM(sid, n) == [j \in 1..n |-> sttArrived[sid][j].pcm]

\* The position of the first final frame among them, or 0.
FirstFinal(sid) ==
    IF \E j \in 1..Len(sttArrived[sid]) : sttArrived[sid][j].final
    THEN CHOOSE j \in 1..Len(sttArrived[sid]) :
            /\ sttArrived[sid][j].final
            /\ \A i \in 1..(j - 1) : ~sttArrived[sid][i].final
    ELSE 0

\* C39: the PCM handed to a final transcription of a session starts with the
\* PCM of every frame received for the session since its buffer was created,
\* in arrival order, up to and including the final frame, whether the
\* transcription was started by the handler of the final frame or deferred
\* behind a transcription in flight.
C39_FinalPCMHoldsAllFrames ==
    \A w \in sttWorkers :
       (w.final /\ w.pc \in {"transcribe", "complete"}) =>
          /\ Len(w.pcm) >= FirstFinal(w.sid)
          /\ Len(w.pcm) <= Len(sttArrived[w.sid])
          /\ w.pcm = ArrivedPCM(w.sid, Len(w.pcm))

====
